---------------------------- MODULE Spec2Model ----------------------------
(***************************************************************************)
(* Sync engine of euler-files: the flock-based lock manager (lock.py),     *)
(* the freshness marker store (markers.py), the copy invoker (rsync.py)    *)
(* and the sync / push orchestrators (sync.py, push.py).                   *)
(*                                                                         *)
(* Time is counted in ticks of a global clock `now` (time.monotonic and    *)
(* time.time are both read from it).                                       *)
(***************************************************************************)
EXTENDS Integers, Sequences, FiniteSets, TLC

(* ------------------------------ bounds -------------------------------- *)
MaxTimeout == 2         \* largest lock timeout, in ticks
MaxPoll    == 2         \* largest poll interval, in ticks
MaxStart   == 1         \* latest tick at which a call may begin

ResourceNames == <<"A", "B">>            \* configured names, ascending
Resources     == {ResourceNames[i] : i \in 1..Len(ResourceNames)}
Runs          == {1, 2}                  \* orchestrator processes
Callers       == 1..(Cardinality(Runs) * Len(ResourceNames))
LockCallers   == {1, 2, 3}               \* callers of LockSpec
LockSpecPaths == {"A"}                   \* the lock path they contend for
FairCallers   == {1, 2}                  \* the two callers of FairLockSpec
MaxTime       == MaxStart + MaxTimeout + 1

Min(a, b) == IF a <= b THEN a ELSE b

VARIABLES
    now,          \* the clock
    lockTimeout,  \* timeout argument of acquire_lock
    pollInterval, \* poll_interval argument of acquire_lock
    holder,       \* holder[p]: caller whose open file holds the flock on p, 0 = free
    pc,           \* pc[c]: position of caller c in acquire_lock
    lockPath,     \* lockPath[c]: lock_path argument
    start,        \* start[c]: time.monotonic() at entry
    elapsed,      \* elapsed[c]: local `elapsed` of the last failed attempt
    wait,         \* wait[c]: local `wait` of the last failed attempt
    wakeAt,       \* wakeAt[c]: earliest tick at which time.sleep(wait) returns
    fpOpen,       \* fpOpen[c]: the lock file handle is open
    thrown,       \* thrown[c]: the protected section raised into the generator
    outcome       \* outcome[c]: how the with-statement ended

VARIABLES
    skipIfFresh,  \* config.skip_if_fresh_seconds
    source,       \* source[v]: the persistent directory of resource v
    marker,       \* marker[v]: content of the marker file of resource v
    skipResult    \* what the last call of should_skip returned or raised

VARIABLES
    scratch,      \* scratch[v]: the scratch directory of resource v exists
    copied,       \* copied[v]: the source of v as the last rsync that returned read it
    runKind,      \* runKind[r]: "sync" or "push" once process r has started
    dryRun,       \* dryRun[r]: the dry_run argument
    force,        \* force[r]: the force argument
    phase,        \* phase[r]: "idle", "running", "done"
    exitCode,     \* exitCode[r]: the process exit status
    wpc,          \* wpc[c]: position of worker c in _sync_one_var / the push loop
    kind,         \* kind[c]: how worker c ended
    results,      \* results[r]: names in the order their futures were collected
    errors,       \* errors[r]: the run's error list
    stdout,       \* stdout[r]: the lines printed to standard output
    copies,       \* copies[c]: rsync invocations made by worker c
    cmd           \* cmd[c]: the command line of the last of them

lockVars == <<now, lockTimeout, pollInterval, holder, pc, lockPath, start,
              elapsed, wait, wakeAt, fpOpen, thrown, outcome>>
callerVars == <<lockTimeout, pollInterval, holder, pc, lockPath, start,
                elapsed, wait, wakeAt, fpOpen, thrown, outcome>>
fsVars == <<skipIfFresh, source, marker>>
syncVars == <<scratch, copied, runKind, dryRun, force, phase, exitCode, wpc, kind,
              results, errors, stdout, copies, cmd>>
VARIABLES
    environ,      \* os.environ: environ[n] is the value of $n, or Unset
    config,       \* the loaded EulerFilesConfig: vars and apptainer.venv_base
    warnings,     \* what the last call of check_congruency returned
    scratch_path, \* str(scratch_path): the argument of _shell_quote, a string
    printed       \* the export line printed for it, as name and quoted value

pureVars == <<environ, config, warnings, scratch_path, printed>>

VARIABLES
    other,        \* the directory at the path the configuration of "A" does not name
    mpc,          \* position of run_migrate
    to_path,      \* its to_path argument
    keep_old,     \* its keep_old argument
    yes,          \* its yes argument
    steps         \* the steps it has performed, in order

migrateVars == <<other, mpc, to_path, keep_old, yes, steps>>

vars == <<lockVars, fsVars, skipResult, syncVars, pureVars, migrateVars>>

(* ------------------------- lock.py: acquire_lock ----------------------- *)

\* (mutant) an attempt that never looks at the current holder
flock_ok_unchecked(c, p) == TRUE

\* fcntl.flock(fd, LOCK_EX | LOCK_NB): succeeds when no other open file
\* holds the lock on the path (re-locking one's own handle succeeds).
flock_ok(c, p) == holder[p] = 0 \/ holder[p] = c

\* lines 31-34: mkdir parents, start = time.monotonic(), fp = open(lock_path, "w")
acquire_lock(c, p) ==
    /\ pc[c] = "idle"
    /\ pc' = [pc EXCEPT ![c] = "try"]
    /\ lockPath' = [lockPath EXCEPT ![c] = p]
    /\ start' = [start EXCEPT ![c] = now]
    /\ fpOpen' = [fpOpen EXCEPT ![c] = TRUE]
    /\ UNCHANGED <<now, lockTimeout, pollInterval, holder, elapsed, wait,
                   wakeAt, thrown, outcome>>

\* the finally block, lines 56-61: flock(LOCK_UN) (errors swallowed), fp.close()
ReleasedHolder(c) ==
    [p \in Resources |-> IF holder[p] = c THEN 0 ELSE holder[p]]

Finally(c) ==
    /\ holder' = ReleasedHolder(c)
    /\ fpOpen' = [fpOpen EXCEPT ![c] = FALSE]

\* contextlib's __exit__ when the generator yields a second time after
\* throw(): RuntimeError("generator didn't stop after throw()").  Python
\* 3.12 and later close the generator at once (the finally block runs);
\* earlier versions leave it suspended until it is garbage collected.
GeneratorClosedAtOnce == BOOLEAN

\* line 38: one non-blocking flock attempt; line 39: yield fp
LockAttempt(c) ==
    /\ pc[c] = "try"
    /\ IF flock_ok(c, lockPath[c])
       THEN IF thrown[c]
            THEN \E closed \in GeneratorClosedAtOnce :
                 /\ pc' = [pc EXCEPT ![c] = IF closed THEN "exited" ELSE "suspended"]
                 /\ outcome' = [outcome EXCEPT ![c] = "RuntimeError"]
                 /\ IF closed
                    THEN Finally(c)
                    ELSE /\ holder' = [holder EXCEPT ![lockPath[c]] = c]
                         /\ UNCHANGED fpOpen
            ELSE /\ pc' = [pc EXCEPT ![c] = "section"]
                 /\ holder' = [holder EXCEPT ![lockPath[c]] = c]
                 /\ UNCHANGED <<fpOpen, outcome>>
       ELSE /\ pc' = [pc EXCEPT ![c] = "except"]
            /\ UNCHANGED <<holder, fpOpen, outcome>>
    /\ UNCHANGED <<now, lockTimeout, pollInterval, lockPath, start, elapsed,
                   wait, wakeAt, thrown>>

\* (mutant) the timeout test written with > instead of >=
LockFailed_gt(c) ==
    /\ pc[c] = "except"
    /\ elapsed' = [elapsed EXCEPT ![c] = now - start[c]]
    /\ IF elapsed'[c] > lockTimeout
       THEN /\ pc' = [pc EXCEPT ![c] = "exited"]
            /\ outcome' = [outcome EXCEPT ![c] = "LockTimeout"]
            /\ Finally(c)
            /\ UNCHANGED <<wait, wakeAt>>
       ELSE /\ wait' = [wait EXCEPT ![c] = Min(pollInterval, lockTimeout - elapsed'[c])]
            /\ wakeAt' = [wakeAt EXCEPT ![c] = now + wait'[c]]
            /\ pc' = [pc EXCEPT ![c] = "sleep"]
            /\ UNCHANGED <<holder, fpOpen, outcome>>
    /\ UNCHANGED <<now, lockTimeout, pollInterval, lockPath, start, thrown>>

\* lines 41-55: the except clause
LockFailed(c) ==
    /\ pc[c] = "except"
    /\ elapsed' = [elapsed EXCEPT ![c] = now - start[c]]
    /\ IF elapsed'[c] >= lockTimeout
       THEN /\ pc' = [pc EXCEPT ![c] = "exited"]
            /\ outcome' = [outcome EXCEPT ![c] = "LockTimeout"]
            /\ Finally(c)
            /\ UNCHANGED <<wait, wakeAt>>
       ELSE /\ wait' = [wait EXCEPT ![c] = Min(pollInterval, lockTimeout - elapsed'[c])]
            /\ wakeAt' = [wakeAt EXCEPT ![c] = now + wait'[c]]
            /\ pc' = [pc EXCEPT ![c] = "sleep"]
            /\ UNCHANGED <<holder, fpOpen, outcome>>
    /\ UNCHANGED <<now, lockTimeout, pollInterval, lockPath, start, thrown>>

\* (mutant) after the sleep the loop re-tests the timeout instead of
\* attempting the lock again
LockWake_recheck(c) ==
    /\ pc[c] = "sleep"
    /\ now >= wakeAt[c]
    /\ pc' = [pc EXCEPT ![c] = "except"]
    /\ wait' = [wait EXCEPT ![c] = 0]
    /\ wakeAt' = [wakeAt EXCEPT ![c] = 0]
    /\ UNCHANGED <<now, lockTimeout, pollInterval, holder, lockPath, start,
                   elapsed, fpOpen, thrown, outcome>>

\* line 55: time.sleep(wait) returns no earlier than wait ticks later; the
\* loop then overwrites `wait` before it is read again
LockWake(c) ==
    /\ pc[c] = "sleep"
    /\ now >= wakeAt[c]
    /\ pc' = [pc EXCEPT ![c] = "try"]
    /\ wait' = [wait EXCEPT ![c] = 0]
    /\ wakeAt' = [wakeAt EXCEPT ![c] = 0]
    /\ UNCHANGED <<now, lockTimeout, pollInterval, holder, lockPath, start,
                   elapsed, fpOpen, thrown, outcome>>

\* line 40: the protected section returned; `return`, then the finally block
SectionReturn(c) ==
    /\ pc[c] = "section"
    /\ pc' = [pc EXCEPT ![c] = "exited"]
    /\ outcome' = [outcome EXCEPT ![c] = "returned"]
    /\ Finally(c)
    /\ UNCHANGED <<now, lockTimeout, pollInterval, lockPath, start, elapsed,
                   wait, wakeAt, thrown>>

\* the protected section raised: the exception is thrown into the generator
\* at line 39.  An OSError is caught by line 41; anything else propagates
\* through the finally block.
SectionRaise(c, exc) ==
    /\ pc[c] = "section"
    /\ IF exc = "OSError"
       THEN /\ pc' = [pc EXCEPT ![c] = "except"]
            /\ thrown' = [thrown EXCEPT ![c] = TRUE]
            /\ UNCHANGED <<holder, fpOpen, outcome>>
       ELSE /\ pc' = [pc EXCEPT ![c] = "exited"]
            /\ outcome' = [outcome EXCEPT ![c] = exc]
            /\ Finally(c)
            /\ UNCHANGED thrown
    /\ UNCHANGED <<now, lockTimeout, pollInterval, lockPath, start, elapsed,
                   wait, wakeAt>>

\* a suspended generator is closed when it is garbage collected:
\* GeneratorExit at line 39 is not an OSError, so the finally block runs
GeneratorFinalize(c) ==
    /\ pc[c] = "suspended"
    /\ pc' = [pc EXCEPT ![c] = "exited"]
    /\ Finally(c)
    /\ UNCHANGED <<now, lockTimeout, pollInterval, lockPath, start, elapsed,
                   wait, wakeAt, thrown, outcome>>

\* the clock advances
Tick ==
    /\ now < MaxTime
    /\ now' = now + 1
    /\ UNCHANGED callerVars

CallersInit ==
    /\ holder = [p \in Resources |-> 0]
    /\ pc = [c \in Callers |-> "idle"]
    /\ lockPath = [c \in Callers |-> "none"]
    /\ start = [c \in Callers |-> 0]
    /\ elapsed = [c \in Callers |-> 0]
    /\ wait = [c \in Callers |-> 0]
    /\ wakeAt = [c \in Callers |-> 0]
    /\ fpOpen = [c \in Callers |-> FALSE]
    /\ thrown = [c \in Callers |-> FALSE]
    /\ outcome = [c \in Callers |-> "none"]

(* --------------------- markers.py: the marker store -------------------- *)
MaxFresh == 2           \* largest freshness window, in ticks
MaxStamp == 2           \* largest timestamp found in the files of MarkerSpec

SetMax(S) == CHOOSE x \in S : \A y \in S : y <= x

\* A source directory: state "missing" (no such path), "ok", "nolist"
\* (iterdir raises PermissionError) or "badchild" (stat of a child raises
\* OSError, e.g. a dangling symlink); mtime of the directory itself and the
\* mtimes of its immediate children.
\* deep is the latest modification time among the entries at depth two or
\* deeper, 0 while none was modified.
Source(st, m, ch) == [state |-> st, mtime |-> m, children |-> ch, deep |-> 0]
MissingSource == Source("missing", 0, {})

\* A marker file: "absent"; "garbage" (not JSON: json.JSONDecodeError, as an
\* empty or truncated file); "unreadable" (read_text raises OSError);
\* "nondict" (JSON that is no object, e.g. [] or null); "badrecord" (an
\* object whose synced_at is not a number); "record".
\* The "source" entry is the path write_marker was given; HomePath is the
\* path every configuration starts with.
HomePath == <<"new", "hf">>
Marker(k, t, m) == [kind |-> k, synced_at |-> t, source_mtime |-> m, source |-> HomePath]
AbsentMarker == Marker("absent", 0, 0)

\* no rsync command has been built
NoCommand == [options |-> <<>>, source |-> <<>>, target |-> <<>>]

NoRuns ==
    /\ scratch = [v \in Resources |-> FALSE]
    /\ copied = [v \in Resources |-> MissingSource]
    /\ runKind = [r \in Runs |-> "none"]
    /\ dryRun = [r \in Runs |-> FALSE]
    /\ force = [r \in Runs |-> FALSE]
    /\ phase = [r \in Runs |-> "idle"]
    /\ exitCode = [r \in Runs |-> 0]
    /\ wpc = [c \in Callers |-> "none"]
    /\ kind = [c \in Callers |-> "none"]
    /\ results = [r \in Runs |-> <<>>]
    /\ errors = [r \in Runs |-> <<>>]
    /\ stdout = [r \in Runs |-> <<>>]
    /\ copies = [c \in Callers |-> 0]
    /\ cmd = [c \in Callers \cup {0} |-> NoCommand]

NoFiles ==
    /\ skipIfFresh = 0
    /\ source = [v \in Resources |-> MissingSource]
    /\ marker = [v \in Resources |-> AbsentMarker]

\* _get_dir_mtime raises OSError: path.stat() or child.stat() fails
_get_dir_mtime_raises(src) == src.state \in {"missing", "badchild"}

\* (mutant) a fingerprint that looks at the directory alone
_get_dir_mtime_depth0(src) == src.mtime

\* _get_dir_mtime: max of the directory's mtime and its children's mtimes;
\* PermissionError while listing leaves the directory's own mtime
_get_dir_mtime(src) ==
    IF src.state = "nolist" THEN src.mtime
    ELSE SetMax({src.mtime} \cup src.children)

\* (mutant) the age test written with >= instead of >
should_skip_ge(v) ==
    LET m == marker[v] IN
    IF m.kind = "absent" THEN "False"
    ELSE IF m.kind \in {"garbage", "unreadable"} THEN "False"
    ELSE IF m.kind = "nondict" THEN "AttributeError"
    ELSE IF m.kind = "badrecord" THEN "TypeError"
    ELSE IF now - m.synced_at >= skipIfFresh THEN "False"
    ELSE IF _get_dir_mtime_raises(source[v]) THEN "False"
    ELSE IF _get_dir_mtime(source[v]) > m.source_mtime THEN "False"
    ELSE "True"

\* should_skip: "True", "False", or the exception that escapes it
should_skip(v) ==
    LET m == marker[v] IN
    IF m.kind = "absent" THEN "False"
    ELSE IF m.kind \in {"garbage", "unreadable"} THEN "False"
    ELSE IF m.kind = "nondict" THEN "AttributeError"
    ELSE IF m.kind = "badrecord" THEN "TypeError"
    ELSE IF now - m.synced_at > skipIfFresh THEN "False"
    ELSE IF _get_dir_mtime_raises(source[v]) THEN "False"
    ELSE IF _get_dir_mtime(source[v]) > m.source_mtime THEN "False"
    ELSE "True"

\* (mutant) an unreadable fingerprint leaves the marker file as it was
write_marker_unreadable(v) ==
    IF _get_dir_mtime_raises(source[v]) THEN marker
    ELSE [marker EXCEPT ![v] =
            [Marker("record", now, _get_dir_mtime(source[v]))
             EXCEPT !.source = config.vars[v].source]]

\* write_marker: synced_at = time.time(), source_mtime = the current
\* fingerprint, 0 when it cannot be read
write_marker(v) ==
    [marker EXCEPT ![v] =
        [Marker("record", now,
                IF _get_dir_mtime_raises(source[v]) THEN 0
                ELSE _get_dir_mtime(source[v]))
         EXCEPT !.source = config.vars[v].source]]

(* ------------------- congruency.py: check_congruency ------------------- *)

\* a path is the sequence of its components below the root
SourcePaths == {<<"new", "hf">>, <<"old", "hf">>, <<"new", "x", "..", "hf">>, <<"new", "\\0">>}
EnvPaths    == {<<"new", "hf">>, <<"old", "hf">>, <<"new", ".", "hf">>}

\* os.environ.get(name): the value, or None
Unset == [set |-> FALSE, value |-> <<>>]
Set(p) == [set |-> TRUE, value |-> p]

\* the names looked up in the environment: the resources and one more
EnvNames == Resources \cup {"VENVS"}

\* config.apptainer: absent, or a venv_base of the form $NAME/...; is_dir is
\* what Path(expanded).is_dir() finds
NoApptainer == [present |-> FALSE, venv_base |-> "VENVS", is_dir |-> FALSE]
Apptainer(n, d) == [present |-> TRUE, venv_base |-> n, is_dir |-> d]

\* Path.resolve() raises ValueError on an embedded null byte
resolve_raises(p) == \E i \in 1..Len(p) : p[i] = "\\0"

\* Path.resolve() of an absolute path without symlinks: "." is dropped and
\* ".." removes the component before it
RECURSIVE Normalize(_, _)
Normalize(p, acc) ==
    IF p = <<>> THEN acc
    ELSE IF Head(p) = "." THEN Normalize(Tail(p), acc)
    ELSE IF Head(p) = ".."
         THEN Normalize(Tail(p), IF acc = <<>> THEN <<>> ELSE SubSeq(acc, 1, Len(acc) - 1))
    ELSE Normalize(Tail(p), Append(acc, Head(p)))

resolve(p) == Normalize(p, <<>>)

CongruencyWarning(n, e, c, m) ==
    [var_name |-> n, env_value |-> e, config_value |-> c, message |-> m]

\* check_congruency lines 31-54, one turn of the loop over config.vars
VarWarning(cfg, env, n) ==
    IF ~cfg.vars[n].enabled THEN <<>>
    ELSE IF ~env[n].set THEN <<>>
    ELSE IF resolve_raises(env[n].value) \/ resolve_raises(cfg.vars[n].source) THEN <<>>
    ELSE IF resolve(env[n].value) # resolve(cfg.vars[n].source)
         THEN <<CongruencyWarning(n, env[n].value, cfg.vars[n].source, "mismatch")>>
    ELSE <<>>

\* check_congruency lines 56-74: the venv base directory of apptainer
VenvWarning(cfg, env) ==
    IF cfg.apptainer.present /\ env[cfg.apptainer.venv_base].set
       /\ ~cfg.apptainer.is_dir
    THEN <<CongruencyWarning(cfg.apptainer.venv_base,
                             env[cfg.apptainer.venv_base].value,
                             <<"$", cfg.apptainer.venv_base>>, "venv_base")>>
    ELSE <<>>

RECURSIVE VarWarnings(_, _, _)
VarWarnings(cfg, env, names) ==
    IF names = <<>> THEN <<>>
    ELSE VarWarning(cfg, env, Head(names)) \o VarWarnings(cfg, env, Tail(names))

\* (mutant) the enabled flag is not looked at
check_congruency_all(cfg, env) ==
    VarWarnings([cfg EXCEPT !.vars = [n \in Resources |-> [cfg.vars[n] EXCEPT !.enabled = TRUE]]],
                env, ResourceNames)
    \o VenvWarning(cfg, env)

\* check_congruency lines 23-76
check_congruency(cfg, env) ==
    VarWarnings(cfg, env, ResourceNames) \o VenvWarning(cfg, env)

\* the list check_congruency returned, once it has been called
NotCalled == [called |-> FALSE, list |-> <<>>]
Returned(l) == [called |-> TRUE, list |-> l]

\* no call of check_congruency is being looked at
NoCongruency ==
    /\ environ = [n \in EnvNames |-> Unset]
    /\ config = [vars |-> [n \in Resources |-> [source |-> HomePath, enabled |-> TRUE]],
                 apptainer |-> NoApptainer, rsync_extra_args |-> <<>>,
                 parallel_jobs |-> 4]
    /\ warnings = NotCalled


(* ------------------------ sync.py: _shell_quote ------------------------ *)
MaxLen == 3

\* the characters a path is made of here: "a" stands for the alphanumeric
\* ones, "/" for the four that pass as well, the others are special to sh
Alphabet == {"a", "/", "'", " ", "\\", "$"}
Strings == UNION {[1..n -> Alphabet] : n \in 0..MaxLen}

\* c.isalnum() or c in "/-_."
IsSafe(c) == c \in {"a", "/"}

\* s.replace("'", "'\\''")
RECURSIVE replace_quote(_)
replace_quote(s) ==
    IF s = <<>> THEN <<>>
    ELSE (IF Head(s) = "'" THEN <<"'", "\\", "'", "'">> ELSE <<Head(s)>>)
         \o replace_quote(Tail(s))

\* (mutant) the embedded single quotes are left as they are
_shell_quote_unescaped(s) ==
    IF \A i \in 1..Len(s) : IsSafe(s[i]) THEN s
    ELSE <<"'">> \o s \o <<"'">>

\* _shell_quote lines 157-161
_shell_quote(s) ==
    IF \A i \in 1..Len(s) : IsSafe(s[i]) THEN s
    ELSE <<"'">> \o replace_quote(s) \o <<"'">>

\* no export line is being looked at
NoQuoting ==
    /\ scratch_path = <<>>
    /\ printed = <<>>

\* run_migrate has not been called
NoMigration ==
    /\ other = MissingSource
    /\ mpc = "idle"
    /\ to_path = <<>>
    /\ keep_old = FALSE
    /\ yes = FALSE
    /\ steps = <<>>

PureIdle == NoCongruency /\ NoQuoting /\ NoMigration

(* MarkerSpec: should_skip and write_marker applied to arbitrary marker     *)
(* files, sources, clocks and freshness windows.                            *)
Times == 0..MaxTime
Stamps == 0..MaxStamp
MarkerInputs ==
    {Marker(k, 0, 0) : k \in {"absent", "garbage", "unreadable", "nondict", "badrecord"}}
    \cup {Marker("record", t, m) : t \in Stamps, m \in Stamps}
SourceInputs ==
    {MissingSource}
    \cup {Source(st, m, ch) : st \in {"ok", "nolist", "badchild"}, m \in Stamps,
                              ch \in {{}} \cup {{t} : t \in Stamps}}

MarkerInit ==
    /\ now \in Times
    /\ lockTimeout = 0
    /\ pollInterval = 1
    /\ CallersInit
    /\ skipIfFresh \in 0..MaxFresh
    /\ source \in [Resources -> {MissingSource}]
    /\ marker \in [Resources -> {AbsentMarker}]
    /\ NoRuns
    /\ skipResult = <<"none", "none">>
    /\ PureIdle

\* the environment puts a marker file and a source directory in place
PlaceFiles(v, m, src) ==
    /\ marker[v] = AbsentMarker /\ source[v] = MissingSource
    /\ marker' = [marker EXCEPT ![v] = m]
    /\ source' = [source EXCEPT ![v] = src]
    /\ skipResult' = <<"none", "none">>
    /\ UNCHANGED <<pureVars, migrateVars>>
    /\ UNCHANGED <<lockVars, skipIfFresh, syncVars>>

CallShouldSkip(v) ==
    /\ skipResult' = <<v, should_skip(v)>>
    /\ UNCHANGED <<pureVars, migrateVars>>
    /\ UNCHANGED <<lockVars, fsVars, syncVars>>

CallWriteMarker(v) ==
    /\ source[v].state # "missing"
    /\ marker' = write_marker(v)
    /\ skipResult' = <<"none", "none">>
    /\ UNCHANGED <<pureVars, migrateVars>>
    /\ UNCHANGED <<lockVars, skipIfFresh, source, syncVars>>

MarkerNext ==
    \/ \E v \in {"A"}, m \in MarkerInputs, src \in SourceInputs : PlaceFiles(v, m, src)
    \/ \E v \in Resources : CallShouldSkip(v)
    \/ \E v \in Resources : CallWriteMarker(v)

MarkerSpec == MarkerInit /\ [][MarkerNext]_vars

(* DeepSpec: should_skip over sources in which a file below a child         *)
(* directory is rewritten, which changes that file's mtime alone.           *)
DeepModify(v) ==
    /\ source[v].state # "missing"
    /\ source[v].deep < now
    /\ source' = [source EXCEPT ![v] = [source[v] EXCEPT !.deep = now]]
    /\ skipResult' = <<"none", "none">>
    /\ UNCHANGED <<pureVars, migrateVars>>
    /\ UNCHANGED <<lockVars, skipIfFresh, marker, syncVars>>

DeepNext ==
    \/ \E v \in {"A"}, m \in {Marker("record", t, f) : t \in Stamps, f \in Stamps},
          src \in SourceInputs : PlaceFiles(v, m, src)
    \/ \E v \in {"A"} : DeepModify(v)
    \/ \E v \in {"A"} : CallShouldSkip(v)

DeepSpec == MarkerInit /\ [][DeepNext]_vars

\* what the lock specifications leave alone
otherVars == <<fsVars, skipResult, syncVars, pureVars, migrateVars>>

(* ------------------- LockSpec: callers of acquire_lock ------------------ *)
ExceptionKinds == {"OSError", "ValueError"}

LockInit ==
    /\ now = 0
    /\ lockTimeout \in 0..MaxTimeout
    /\ pollInterval \in 1..MaxPoll
    /\ CallersInit
    /\ NoFiles
    /\ NoRuns
    /\ skipResult = <<"none", "none">>
    /\ PureIdle

LockNext ==
    \/ \E c \in LockCallers, p \in LockSpecPaths : (now <= MaxStart /\ acquire_lock(c, p)) /\ UNCHANGED otherVars
    \/ \E c \in LockCallers : (LockAttempt(c)) /\ UNCHANGED otherVars
    \/ \E c \in LockCallers : (LockFailed(c)) /\ UNCHANGED otherVars
    \/ \E c \in LockCallers : (LockWake(c)) /\ UNCHANGED otherVars
    \/ \E c \in LockCallers : (SectionReturn(c)) /\ UNCHANGED otherVars
    \/ \E c \in LockCallers, exc \in ExceptionKinds : (SectionRaise(c, exc)) /\ UNCHANGED otherVars
    \/ \E c \in LockCallers : (GeneratorFinalize(c)) /\ UNCHANGED otherVars
    \/ Tick /\ UNCHANGED otherVars

LockSpec == LockInit /\ [][LockNext]_vars

(* FairLockSpec: two callers; every thread that can run does run, the clock *)
(* advances and garbage is collected.  The protected section may last      *)
(* forever and nobody is obliged to call.                                  *)
FairLockNext ==
    \/ \E c \in FairCallers, p \in LockSpecPaths : (now <= MaxStart /\ acquire_lock(c, p)) /\ UNCHANGED otherVars
    \/ \E c \in FairCallers : (LockAttempt(c)) /\ UNCHANGED otherVars
    \/ \E c \in FairCallers : (LockFailed(c)) /\ UNCHANGED otherVars
    \/ \E c \in FairCallers : (LockWake(c)) /\ UNCHANGED otherVars
    \/ \E c \in FairCallers : (SectionReturn(c)) /\ UNCHANGED otherVars
    \/ \E c \in FairCallers, exc \in ExceptionKinds : (SectionRaise(c, exc)) /\ UNCHANGED otherVars
    \/ \E c \in FairCallers : (GeneratorFinalize(c)) /\ UNCHANGED otherVars
    \/ Tick /\ UNCHANGED otherVars

FairLockSpec ==
    /\ LockInit
    /\ [][FairLockNext]_vars
    /\ \A c \in FairCallers :
         /\ WF_vars(LockAttempt(c) /\ UNCHANGED otherVars)
         /\ WF_vars(LockFailed(c) /\ UNCHANGED otherVars)
         /\ WF_vars(LockWake(c) /\ UNCHANGED otherVars)
         /\ WF_vars(GeneratorFinalize(c) /\ UNCHANGED otherVars)
    /\ WF_vars(Tick /\ UNCHANGED otherVars)

(* ------------------- sync.py / push.py: the orchestrators --------------- *)
Index(v)   == CHOOSE i \in 1..Len(ResourceNames) : ResourceNames[i] = v
Worker(r, v) == (r - 1) * Len(ResourceNames) + Index(v)
RunOf(c)   == ((c - 1) \div Len(ResourceNames)) + 1
NameOf(c)  == ResourceNames[((c - 1) % Len(ResourceNames)) + 1]
WorkersOf(r) == {c \in Callers : RunOf(c) = r}

\* config.py: lock and scratch paths are derived from the resource name
lock_path_for(v)   == v
scratch_dir_for(v) == <<"scratch_base", "cache_root", v>>

\* what subprocess.run meets: an rsync child that ends with a return code
\* (negative: killed by a signal), or no rsync on the PATH
RsyncCodes == {-9, 0, 1, 23, 24, 25}
RsyncOutcomes ==
    {[found |-> TRUE, returncode |-> n] : n \in RsyncCodes}
    \cup {[found |-> FALSE, returncode |-> 0]}

\* (mutant) codes 23 and 24 are errors like any other
run_rsync_strict(rc) ==
    IF ~rc.found THEN "FileNotFoundError"
    ELSE IF rc.returncode # 0 THEN "RsyncError"
    ELSE "returned"

\* run_rsync lines 52-67: "returned", or the exception it raises
run_rsync(rc) ==
    IF ~rc.found THEN "FileNotFoundError"
    ELSE IF rc.returncode # 0
         THEN IF rc.returncode \in {23, 24} THEN "returned" ELSE "RsyncError"
    ELSE "returned"

run_rsync_returns(rc) == run_rsync(rc) = "returned"

\* str(path).rstrip("/") + "/": the contents of the directory, not the
\* directory itself
Contents(path) == Append(path, "/")

\* (mutant) --delete is part of every command line
rsync_cmd_mirror(src, tgt, extra_args, verbose, delete) ==
    [options |-> <<"-a", "--info=progress2", "--info=name0", "--human-readable">>
                 \o <<"--delete">>
                 \o extra_args
                 \o (IF verbose THEN <<"--verbose">> ELSE <<>>),
     source |-> Contents(src),
     target |-> Contents(tgt)]

\* run_rsync lines 31-50: the command line handed to subprocess.run
rsync_cmd(src, tgt, extra_args, verbose, delete) ==
    [options |-> <<"-a", "--info=progress2", "--info=name0", "--human-readable">>
                 \o (IF delete THEN <<"--delete">> ELSE <<>>)
                 \o extra_args
                 \o (IF verbose THEN <<"--verbose">> ELSE <<>>),
     source |-> Contents(src),
     target |-> Contents(tgt)]

\* sorted(results): ascending by resource name (insertion sort)
RECURSIVE Insert(_, _)
Insert(n, s) ==
    IF s = <<>> THEN <<n>>
    ELSE IF Index(n) <= Index(Head(s)) THEN <<n>> \o s
    ELSE <<Head(s)>> \o Insert(n, Tail(s))

RECURSIVE sorted(_)

\* (mutant) the results are left in completion order
sorted_unsorted(s) == s

sorted(s) == IF s = <<>> THEN <<>> ELSE Insert(Head(s), sorted(Tail(s)))

runVars == <<runKind, dryRun, force, phase, exitCode, stdout>>

\* the worker returned: sync.py line 73 stores the path under its name
Finish(c, k) ==
    /\ wpc' = [wpc EXCEPT ![c] = "done"]
    /\ kind' = [kind EXCEPT ![c] = k]
    /\ results' = IF runKind[RunOf(c)] = "sync"
                  THEN [results EXCEPT ![RunOf(c)] = Append(@, NameOf(c))]
                  ELSE results
    /\ UNCHANGED errors

\* (mutant) a worker that raised is entered in the results as well
Fail_listed(c, exc) ==
    /\ wpc' = [wpc EXCEPT ![c] = "done"]
    /\ kind' = [kind EXCEPT ![c] = "failed"]
    /\ errors' = [errors EXCEPT ![RunOf(c)] = Append(@, <<NameOf(c), exc>>)]
    /\ results' = [results EXCEPT ![RunOf(c)] = Append(@, NameOf(c))]

\* the worker raised: sync.py lines 74-76, push.py lines 73-75
Fail(c, exc) ==
    /\ wpc' = [wpc EXCEPT ![c] = "done"]
    /\ kind' = [kind EXCEPT ![c] = "failed"]
    /\ errors' = [errors EXCEPT ![RunOf(c)] = Append(@, <<NameOf(c), exc>>)]
    /\ UNCHANGED results

\* run_sync lines 29-67: every selected resource is submitted to the pool
StartSync(r, d, f) ==
    /\ phase[r] = "idle"
    /\ phase' = [phase EXCEPT ![r] = "running"]
    /\ runKind' = [runKind EXCEPT ![r] = "sync"]
    /\ dryRun' = [dryRun EXCEPT ![r] = d]
    /\ force' = [force EXCEPT ![r] = f]
    /\ wpc' = [c \in Callers |-> IF RunOf(c) = r THEN "start" ELSE wpc[c]]
    /\ UNCHANGED <<lockVars, fsVars, skipResult, pureVars, migrateVars, scratch, copied, exitCode, kind,
                   results, errors, stdout, copies, cmd>>

\* the only_vars argument: None, or a list of names
None == [given |-> FALSE, names |-> {}]
Only(names) == [given |-> TRUE, names |-> names]

\* (mutant) the filter forgets the enabled flag
vars_to_sync_all(enabled, only_vars) ==
    {v \in Resources : ~only_vars.given \/ v \in only_vars.names}

\* run_sync lines 39-43: the enabled resources, restricted to only_vars when
\* it is given
vars_to_sync(enabled, only_vars) ==
    {v \in Resources : v \in enabled /\ (~only_vars.given \/ v \in only_vars.names)}

\* run_sync lines 29-67 with a configuration in which the resources of
\* `enabled` are enabled: nothing to do (lines 45-47), or the selected
\* resources are submitted to the pool
StartSyncOnly(r, d, f, enabled, only_vars) ==
    /\ phase[r] = "idle"
    /\ runKind' = [runKind EXCEPT ![r] = "sync"]
    /\ dryRun' = [dryRun EXCEPT ![r] = d]
    /\ force' = [force EXCEPT ![r] = f]
    /\ IF vars_to_sync(enabled, only_vars) = {}
       THEN /\ phase' = [phase EXCEPT ![r] = "done"]
            /\ UNCHANGED wpc
       ELSE /\ phase' = [phase EXCEPT ![r] = "running"]
            /\ wpc' = [c \in Callers |->
                         IF RunOf(c) = r /\ NameOf(c) \in vars_to_sync(enabled, only_vars)
                         THEN "start" ELSE wpc[c]]
    /\ UNCHANGED <<lockVars, fsVars, skipResult, pureVars, migrateVars, scratch, copied, exitCode, kind,
                   results, errors, stdout, copies, cmd>>

\* run_push lines 24-43: the resources are visited one after the other
StartPush(r, d) ==
    /\ phase[r] = "idle"
    /\ phase' = [phase EXCEPT ![r] = "running"]
    /\ runKind' = [runKind EXCEPT ![r] = "push"]
    /\ dryRun' = [dryRun EXCEPT ![r] = d]
    /\ wpc' = [c \in Callers |-> IF RunOf(c) = r THEN "start" ELSE wpc[c]]
    /\ UNCHANGED <<lockVars, fsVars, skipResult, pureVars, migrateVars, scratch, copied, force, exitCode,
                   kind, results, errors, stdout, copies, cmd>>

\* (mutant) a missing source fails the resource
SyncOneVar_strict(c) ==
    LET r == RunOf(c)
        v == NameOf(c)
    IN  /\ runKind[r] = "sync" /\ wpc[c] = "start"
        /\ IF source[v].state = "missing"
           THEN Fail(c, "FileNotFoundError") /\ UNCHANGED <<scratch, copied, lockVars>>
           ELSE IF ~force[r] /\ should_skip(v) = "True"
           THEN Finish(c, "skipped") /\ UNCHANGED <<scratch, copied, lockVars>>
           ELSE IF ~force[r] /\ should_skip(v) # "False"
           THEN Fail(c, should_skip(v)) /\ UNCHANGED <<scratch, copied, lockVars>>
           ELSE IF dryRun[r]
           THEN Finish(c, "dryrun") /\ UNCHANGED <<scratch, copied, lockVars>>
           ELSE /\ acquire_lock(c, lock_path_for(v))
                /\ wpc' = [wpc EXCEPT ![c] = "lock"]
                /\ UNCHANGED <<scratch, copied, kind, results, errors>>
        /\ UNCHANGED <<fsVars, skipResult, pureVars, migrateVars, runVars, copies, cmd>>

\* _sync_one_var lines 115-136: missing source, smart skip, dry run, or on
\* to the lock
SyncOneVar(c) ==
    LET r == RunOf(c)
        v == NameOf(c)
    IN  /\ runKind[r] = "sync" /\ wpc[c] = "start"
        /\ IF source[v].state = "missing"
           THEN /\ scratch' = [scratch EXCEPT ![v] = TRUE]
                /\ Finish(c, "warned")
                /\ UNCHANGED <<lockVars, copied>>
           ELSE IF ~force[r] /\ should_skip(v) = "True"
           THEN Finish(c, "skipped") /\ UNCHANGED <<scratch, copied, lockVars>>
           ELSE IF ~force[r] /\ should_skip(v) # "False"
           THEN Fail(c, should_skip(v)) /\ UNCHANGED <<scratch, copied, lockVars>>
           ELSE IF dryRun[r]
           THEN Finish(c, "dryrun") /\ UNCHANGED <<scratch, copied, lockVars>>
           ELSE /\ acquire_lock(c, lock_path_for(v))
                /\ wpc' = [wpc EXCEPT ![c] = "lock"]
                /\ UNCHANGED <<scratch, copied, kind, results, errors>>
        /\ UNCHANGED <<fsVars, skipResult, pureVars, migrateVars, runVars, copies, cmd>>

\* (mutant) a missing scratch directory fails the resource
PushOneVar_strict(c) ==
    LET r == RunOf(c)
        v == NameOf(c)
    IN  /\ runKind[r] = "push" /\ wpc[c] = "start"
        /\ \A o \in WorkersOf(r) : Index(NameOf(o)) < Index(v) => wpc[o] = "done"
        /\ IF ~scratch[v]
           THEN Fail(c, "FileNotFoundError") /\ UNCHANGED lockVars
           ELSE IF dryRun[r]
           THEN Finish(c, "dryrun") /\ UNCHANGED lockVars
           ELSE /\ acquire_lock(c, lock_path_for(v))
                /\ wpc' = [wpc EXCEPT ![c] = "lock"]
                /\ UNCHANGED <<kind, results, errors>>
        /\ UNCHANGED <<fsVars, skipResult, pureVars, migrateVars, runVars, scratch, copied, copies, cmd>>

\* run_push lines 43-59: one turn of the loop up to the lock
PushOneVar(c) ==
    LET r == RunOf(c)
        v == NameOf(c)
    IN  /\ runKind[r] = "push" /\ wpc[c] = "start"
        /\ \A o \in WorkersOf(r) : Index(NameOf(o)) < Index(v) => wpc[o] = "done"
        /\ IF ~scratch[v]
           THEN Finish(c, "skipped") /\ UNCHANGED lockVars
           ELSE IF dryRun[r]
           THEN Finish(c, "dryrun") /\ UNCHANGED lockVars
           ELSE /\ acquire_lock(c, lock_path_for(v))
                /\ wpc' = [wpc EXCEPT ![c] = "lock"]
                /\ UNCHANGED <<kind, results, errors>>
        /\ UNCHANGED <<fsVars, skipResult, pureVars, migrateVars, runVars, scratch, copied, copies, cmd>>


workerVars == <<wpc, kind, results, errors>>

\* acquire_lock inside a worker: an attempt; a second yield after the
\* section raised reaches the worker as RuntimeError
WorkerLockAttempt(c) ==
    /\ wpc[c] = "lock"
    /\ LockAttempt(c)
    /\ IF pc'[c] \in {"exited", "suspended"}
       THEN Fail(c, "RuntimeError")
       ELSE UNCHANGED workerVars
    /\ UNCHANGED <<fsVars, skipResult, pureVars, migrateVars, runVars, scratch, copied, copies, cmd>>

\* (mutant) a worker that meets LockTimeout starts over
WorkerLockFailed_retry(c) ==
    /\ wpc[c] = "lock"
    /\ LockFailed(c)
    /\ IF pc'[c] = "exited"
       THEN /\ wpc' = [wpc EXCEPT ![c] = "start"]
            /\ UNCHANGED <<kind, results, errors>>
       ELSE UNCHANGED workerVars
    /\ UNCHANGED <<fsVars, skipResult, pureVars, migrateVars, runVars, scratch, copied, copies, cmd>>

\* acquire_lock inside a worker: the except clause; LockTimeout reaches the
\* worker's caller
WorkerLockFailed(c) ==
    /\ wpc[c] = "lock"
    /\ LockFailed(c)
    /\ IF pc'[c] = "exited"
       THEN Fail(c, "LockTimeout")
       ELSE UNCHANGED workerVars
    /\ UNCHANGED <<fsVars, skipResult, pureVars, migrateVars, runVars, scratch, copied, copies, cmd>>

WorkerLockWake(c) ==
    /\ wpc[c] = "lock"
    /\ LockWake(c)
    /\ UNCHANGED <<fsVars, skipResult, pureVars, migrateVars, syncVars>>

WorkerFinalize(c) ==
    /\ GeneratorFinalize(c)
    /\ UNCHANGED <<fsVars, skipResult, pureVars, migrateVars, syncVars>>

\* sync.py lines 137-145, push.py lines 60-67: mkdir of the target, then
\* run_rsync.  Exit status 0, 23 and 24 return; any other status raises
\* RsyncError; a missing rsync makes subprocess.run raise FileNotFoundError,
\* an OSError.  A push that copied something new changes the fingerprint of
\* the persistent directory.
Copy(c, rc, grew) ==
    LET r == RunOf(c)
        v == NameOf(c)
    IN  /\ wpc[c] = "lock" /\ pc[c] = "section"
        /\ runKind[r] = "sync" => ~grew
        /\ copies' = [copies EXCEPT ![c] = 1]
        /\ cmd' = [cmd EXCEPT ![c] =
              IF runKind[r] = "sync"
              THEN rsync_cmd(config.vars[v].source, scratch_dir_for(v),
                             config.rsync_extra_args, FALSE, FALSE)
              ELSE rsync_cmd(scratch_dir_for(v), config.vars[v].source,
                             config.rsync_extra_args, FALSE, FALSE)]
        /\ IF runKind[r] = "sync"
           THEN /\ scratch' = [scratch EXCEPT ![v] = TRUE]
                /\ copied' = [copied EXCEPT ![v] =
                      IF run_rsync_returns(rc) THEN source[v] ELSE copied[v]]
                /\ UNCHANGED source
           ELSE /\ source' = [source EXCEPT ![v] =
                      IF source[v].state = "missing" THEN Source("ok", now, {})
                      ELSE IF grew /\ rc.found
                           THEN [source[v] EXCEPT !.mtime = now]
                           ELSE source[v]]
                /\ UNCHANGED <<scratch, copied>>
        /\ IF run_rsync_returns(rc)
           THEN /\ wpc' = [wpc EXCEPT ![c] = "copied"]
                /\ UNCHANGED <<lockVars, kind, results, errors>>
           ELSE IF run_rsync(rc) = "FileNotFoundError"
           THEN /\ SectionRaise(c, "OSError")
                /\ UNCHANGED workerVars
           ELSE /\ SectionRaise(c, "RsyncError")
                /\ Fail(c, "RsyncError")
        /\ UNCHANGED <<skipIfFresh, marker, skipResult, pureVars, migrateVars, runVars>>

\* (mutant) the marker is written although run_rsync raised
WriteMarker_always(c) ==
    /\ wpc[c] = "done" /\ kind[c] = "failed" /\ copies[c] = 1
    /\ marker[NameOf(c)] = AbsentMarker
    /\ marker' = write_marker(NameOf(c))
    /\ UNCHANGED <<lockVars, skipIfFresh, source, skipResult, pureVars, migrateVars, syncVars>>

\* sync.py line 147, push.py line 70: write_marker after run_rsync returned
WriteMarker(c) ==
    /\ wpc[c] = "copied"
    /\ marker' = write_marker(NameOf(c))
    /\ wpc' = [wpc EXCEPT ![c] = "marked"]
    /\ UNCHANGED <<lockVars, skipIfFresh, source, skipResult, pureVars, migrateVars, runVars,
                   scratch, copied, kind, results, errors, copies, cmd>>

\* the with-statement ends normally and the worker returns
Leave(c) ==
    /\ wpc[c] = "marked"
    /\ SectionReturn(c)
    /\ Finish(c, "copied")
    /\ UNCHANGED <<fsVars, skipResult, pureVars, migrateVars, runVars, scratch, copied, copies, cmd>>

\* what a run prints once its workers are done: sync.py lines 78-103
ExportLine(n) == [file |-> "stdout", text |-> <<"export", n, scratch_dir_for(n)>>]
Diagnostic(t) == [file |-> "stderr", text |-> <<t>>]

Summary(r) ==
    <<Diagnostic("Environment variables:")>>
    \o [i \in 1..Len(sorted(results[r])) |-> ExportLine(sorted(results[r])[i])]
    \o (IF errors[r] # <<>>
        THEN <<Diagnostic("variable(s) failed to sync.")>>
        ELSE <<Diagnostic("Done. All variables synced successfully.")>>)

OnStdout(line) == line.file = "stdout"

\* (mutant) a push that prints an export line for what it pushed
PushSummary_exports(r) ==
    [i \in 1..Len(errors[r]) |-> ExportLine(errors[r][i][1])]
    \o (IF \E c \in WorkersOf(r) : kind[c] = "copied"
        THEN <<ExportLine(NameOf(CHOOSE c \in WorkersOf(r) : kind[c] = "copied"))>>
        ELSE <<>>)

\* run_push lines 77-79: every message of a push goes through _err
PushSummary(r) ==
    IF errors[r] # <<>>
    THEN <<Diagnostic("variable(s) failed to push.")>>
    ELSE <<>>

\* what the run prints at its end, on either file
Printed(r) == IF runKind[r] = "sync" THEN Summary(r) ELSE PushSummary(r)

\* (mutant) a run that exits 0 whatever happened
ExitStatus_zero(r) == 0

\* sync.py lines 99-101, push.py lines 77-79
ExitStatus(r) == IF errors[r] # <<>> THEN 1 ELSE 0

\* (mutant) the run prints and exits as soon as one worker is done
Exit_early(r) ==
    /\ phase[r] = "running"
    /\ \E c \in WorkersOf(r) : wpc[c] = "done"
    /\ phase' = [phase EXCEPT ![r] = "done"]
    /\ stdout' = [stdout EXCEPT ![r] = SelectSeq(Printed(r), OnStdout)]
    /\ exitCode' = [exitCode EXCEPT ![r] = ExitStatus(r)]
    /\ UNCHANGED <<lockVars, fsVars, skipResult, pureVars, migrateVars, runKind, dryRun, force,
                   scratch, copied, wpc, kind, results, errors, copies, cmd>>

\* the pool has drained (sync) or the loop has ended (push): the summary is
\* printed and the exit status is fixed
Exit(r) ==
    /\ phase[r] = "running"
    /\ \A c \in WorkersOf(r) : wpc[c] \in {"done", "none"}
    /\ phase' = [phase EXCEPT ![r] = "done"]
    /\ stdout' = [stdout EXCEPT ![r] = SelectSeq(Printed(r), OnStdout)]
    /\ exitCode' = [exitCode EXCEPT ![r] = ExitStatus(r)]
    /\ UNCHANGED <<lockVars, fsVars, skipResult, pureVars, migrateVars, runKind, dryRun, force,
                   scratch, copied, wpc, kind, results, errors, copies, cmd>>

\* the process is gone: its memory is freed and the operating system closes
\* its descriptors, which drops any flock a suspended generator still held.
\* What it printed and its exit status stay with the calling shell.
ProcessEnd(r) ==
    /\ phase[r] = "done"
    /\ phase' = [phase EXCEPT ![r] = "gone"]
    /\ holder' = [p \in Resources |->
                    IF holder[p] \in WorkersOf(r) THEN 0 ELSE holder[p]]
    /\ pc' = [c \in Callers |-> IF RunOf(c) = r THEN "exited" ELSE pc[c]]
    /\ lockPath' = [c \in Callers |-> IF RunOf(c) = r THEN "none" ELSE lockPath[c]]
    /\ start' = [c \in Callers |-> IF RunOf(c) = r THEN 0 ELSE start[c]]
    /\ elapsed' = [c \in Callers |-> IF RunOf(c) = r THEN 0 ELSE elapsed[c]]
    /\ fpOpen' = [c \in Callers |-> IF RunOf(c) = r THEN FALSE ELSE fpOpen[c]]
    /\ thrown' = [c \in Callers |-> IF RunOf(c) = r THEN FALSE ELSE thrown[c]]
    /\ outcome' = [c \in Callers |-> IF RunOf(c) = r THEN "none" ELSE outcome[c]]
    /\ wpc' = [c \in Callers |-> IF RunOf(c) = r THEN "none" ELSE wpc[c]]
    /\ kind' = [c \in Callers |-> IF RunOf(c) = r THEN "none" ELSE kind[c]]
    /\ copies' = [c \in Callers |-> IF RunOf(c) = r THEN 0 ELSE copies[c]]
    /\ cmd' = [c \in Callers \cup {0} |-> IF c # 0 /\ RunOf(c) = r THEN NoCommand ELSE cmd[c]]
    /\ results' = [results EXCEPT ![r] = <<>>]
    /\ errors' = [errors EXCEPT ![r] = <<>>]
    /\ UNCHANGED <<now, lockTimeout, pollInterval, wait, wakeAt, fsVars,
                   skipResult, pureVars, migrateVars, runKind, dryRun, force, scratch, copied, exitCode,
                   stdout>>

\* the environment creates or modifies a top-level entry of a source
ModifySource(v) ==
    /\ source[v].state # "missing"
    /\ marker[v].kind = "record"
    /\ \A t \in {source[v].mtime} \cup source[v].children : t < now
    /\ source' = [source EXCEPT ![v] = [source[v] EXCEPT !.children = {now}]]
    /\ UNCHANGED <<lockVars, skipIfFresh, marker, skipResult, pureVars, migrateVars, syncVars>>

SyncMaxTime == 2        \* last tick of SyncSpec

\* another process takes and later drops the flock of a resource
Foreign == Cardinality(Callers) + 1

ForeignLock(v) ==
    /\ holder[v] = 0
    /\ holder' = [holder EXCEPT ![v] = Foreign]
    /\ UNCHANGED <<now, lockTimeout, pollInterval, pc, lockPath, start,
                   elapsed, wait, wakeAt, fpOpen, thrown, outcome, fsVars,
                   skipResult, pureVars, migrateVars, syncVars>>

ForeignUnlock(v) ==
    /\ holder[v] = Foreign
    /\ holder' = [holder EXCEPT ![v] = 0]
    /\ UNCHANGED <<now, lockTimeout, pollInterval, pc, lockPath, start,
                   elapsed, wait, wakeAt, fpOpen, thrown, outcome, fsVars,
                   skipResult, pureVars, migrateVars, syncVars>>

SyncTick == now < SyncMaxTime /\ Tick /\ UNCHANGED <<fsVars, skipResult, pureVars, migrateVars, syncVars>>

(* SyncSpec: two orchestrator runs over two resources, one after the other: *)
(* a plain sync, then a sync with any flags or a push.  Another process may *)
(* hold the lock of resource A meanwhile.                                   *)
\* a run of SyncSpec starts when the runs before it are gone
After(r) == \A o \in Runs : o < r => phase[o] = "gone"

SyncTimeout == 1
SyncFresh == 1
InitialSources ==
    {MissingSource} \cup {Source(st, 0, {0}) : st \in {"ok", "badchild"}}

SyncInit ==
    /\ now = 0
    /\ lockTimeout = SyncTimeout
    /\ pollInterval = 1
    /\ CallersInit
    /\ skipIfFresh = SyncFresh
    /\ source \in [Resources -> InitialSources]
    /\ source["A"].state = "ok"
    /\ marker = [v \in Resources |-> AbsentMarker]
    /\ NoRuns
    /\ skipResult = <<"none", "none">>
    /\ PureIdle

SyncNext ==
    \/ \E r \in {1} : StartSync(r, FALSE, FALSE)
    \/ \E r \in Runs \ {1}, d \in BOOLEAN, f \in BOOLEAN : After(r) /\ StartSync(r, d, f)
    \/ \E r \in Runs \ {1}, d \in BOOLEAN : After(r) /\ StartPush(r, d)
    \/ \E c \in Callers : SyncOneVar(c)
    \/ \E c \in Callers : PushOneVar(c)
    \/ \E c \in Callers : WorkerLockAttempt(c)
    \/ \E c \in Callers : WorkerLockFailed(c)
    \/ \E c \in Callers : WorkerLockWake(c)
    \/ \E c \in Callers : WorkerFinalize(c)
    \/ \E c \in Callers, rc \in RsyncOutcomes, grew \in BOOLEAN : Copy(c, rc, grew)
    \/ \E c \in Callers : WriteMarker(c)
    \/ \E c \in Callers : Leave(c)
    \/ \E r \in Runs : Exit(r)
    \/ \E r \in Runs : ProcessEnd(r)
    \/ \E v \in {"A"} : ModifySource(v)
    \/ \E v \in {"A"} : ForeignLock(v)
    \/ \E v \in {"A"} : ForeignUnlock(v)
    \/ SyncTick

SyncSpec == SyncInit /\ [][SyncNext]_vars

(* OneRunSpec: a single sync run with any flags, started on any marker     *)
(* file and source of B (A: an existing source, with or without a marker), *)
(* while another process may hold the lock of A.                           *)
OneRunMarkers ==
    {AbsentMarker, Marker("record", 0, 0)}
    \cup {Marker(k, 0, 0) : k \in {"garbage", "nondict", "badrecord"}}

OneRunInit ==
    /\ now = 0
    /\ lockTimeout = SyncTimeout
    /\ pollInterval = 1
    /\ CallersInit
    /\ skipIfFresh = SyncFresh
    /\ source \in [Resources -> InitialSources]
    /\ source["A"].state = "ok"
    /\ marker \in [Resources -> OneRunMarkers]
    /\ marker["A"].kind \in {"absent", "record"}
    /\ NoRuns
    /\ skipResult = <<"none", "none">>
    /\ PureIdle

OneRunNext ==
    \/ \E r \in {1}, d \in BOOLEAN, f \in BOOLEAN : StartSync(r, d, f)
    \/ \E c \in WorkersOf(1) : SyncOneVar(c)
    \/ \E c \in WorkersOf(1) : WorkerLockAttempt(c)
    \/ \E c \in WorkersOf(1) : WorkerLockFailed(c)
    \/ \E c \in WorkersOf(1) : WorkerLockWake(c)
    \/ \E c \in WorkersOf(1) : WorkerFinalize(c)
    \/ \E c \in WorkersOf(1), rc \in RsyncOutcomes : Copy(c, rc, FALSE)
    \/ \E c \in WorkersOf(1) : WriteMarker(c)
    \/ \E c \in WorkersOf(1) : Leave(c)
    \/ \E r \in {1} : Exit(r)
    \/ \E v \in {"A"} : ForeignLock(v)
    \/ \E v \in {"A"} : ForeignUnlock(v)
    \/ SyncTick

OneRunSpec == OneRunInit /\ [][OneRunNext]_vars

(* RaceSpec: two sync processes started at any time, the first over both    *)
(* resources, the second over A alone (--var A); every source exists and   *)
(* no marker has been written yet.                                          *)
RaceInit ==
    /\ now = 0
    /\ lockTimeout = SyncTimeout
    /\ pollInterval = 1
    /\ CallersInit
    /\ skipIfFresh = SyncFresh
    /\ source = [v \in Resources |-> Source("ok", 0, {0})]
    /\ marker = [v \in Resources |-> AbsentMarker]
    /\ NoRuns
    /\ skipResult = <<"none", "none">>
    /\ PureIdle

RaceNext ==
    \/ \E r \in {1} : StartSync(r, FALSE, FALSE)
    \/ \E r \in {2}, f \in BOOLEAN : StartSyncOnly(r, FALSE, f, Resources, Only({"A"}))
    \/ \E c \in Callers : SyncOneVar(c)
    \/ \E c \in Callers : WorkerLockAttempt(c)
    \/ \E c \in Callers : WorkerLockFailed(c)
    \/ \E c \in Callers : WorkerLockWake(c)
    \/ \E c \in Callers : WorkerFinalize(c)
    \/ \E c \in Callers, rc \in RsyncOutcomes : Copy(c, rc, FALSE)
    \/ \E c \in Callers : WriteMarker(c)
    \/ \E c \in Callers : Leave(c)
    \/ \E r \in Runs : Exit(r)
    \/ SyncTick

RaceSpec == RaceInit /\ [][RaceNext]_vars

(* SelectSpec: one sync process started with any set of enabled resources  *)
(* in its configuration and any --var selection.                            *)
Selections == {None} \cup {Only(S) : S \in SUBSET Resources}

SelectInit ==
    /\ now = 0
    /\ lockTimeout = SyncTimeout
    /\ pollInterval = 1
    /\ CallersInit
    /\ skipIfFresh = SyncFresh
    /\ source = [v \in Resources |-> Source("ok", 0, {0})]
    /\ marker \in [Resources -> {AbsentMarker, Marker("record", 0, 0)}]
    /\ NoRuns
    /\ skipResult = <<"none", "none">>
    /\ PureIdle

SelectNext ==
    \/ \E r \in {1}, d \in BOOLEAN, f \in BOOLEAN :
         \E enabled \in SUBSET Resources, only_vars \in Selections :
            StartSyncOnly(r, d, f, enabled, only_vars)
    \/ \E c \in WorkersOf(1) : SyncOneVar(c)
    \/ \E c \in WorkersOf(1) : WorkerLockAttempt(c)
    \/ \E c \in WorkersOf(1) : WorkerLockFailed(c)
    \/ \E c \in WorkersOf(1) : WorkerLockWake(c)
    \/ \E c \in WorkersOf(1) : WorkerFinalize(c)
    \/ \E c \in WorkersOf(1), rc \in RsyncOutcomes : Copy(c, rc, FALSE)
    \/ \E c \in WorkersOf(1) : WriteMarker(c)
    \/ \E c \in WorkersOf(1) : Leave(c)
    \/ \E r \in {1} : Exit(r)
    \/ SyncTick

SelectSpec == SelectInit /\ [][SelectNext]_vars

\* what load_config finds at the configuration path
ConfigFiles ==
    {"ok", "missing", "invalid_json", "not_object", "version_mismatch",
     "bad_var_entry"}

\* load_config lines 82-132: "loaded", or the exception it raises.
\* json.loads raises JSONDecodeError on text that is not JSON; raw.get on
\* JSON that is not an object raises AttributeError; VarConfig(**v) on an
\* entry with unknown or missing fields raises TypeError.
load_config(cfg) ==
    CASE cfg = "missing"          -> "FileNotFoundError"
      [] cfg = "invalid_json"     -> "JSONDecodeError"
      [] cfg = "not_object"       -> "AttributeError"
      [] cfg = "version_mismatch" -> "ValueError"
      [] cfg = "bad_var_entry"    -> "TypeError"
      [] OTHER                    -> "loaded"

\* cli.py lines 32-40: FileNotFoundError and ValueError (JSONDecodeError is
\* one) end the process with status 2; any other exception leaves the
\* command as a traceback, status 1
sync_exit_status(exc) ==
    IF exc \in {"FileNotFoundError", "ValueError", "JSONDecodeError"} THEN 2
    ELSE 1

\* the sync command of cli.py: run_sync loads the configuration first (line
\* 29) and goes on only when that returned
SyncCommand(r, cfg, d, f) ==
    IF load_config(cfg) = "loaded"
    THEN StartSync(r, d, f)
    ELSE /\ phase[r] = "idle"
         /\ phase' = [phase EXCEPT ![r] = "done"]
         /\ runKind' = [runKind EXCEPT ![r] = "sync"]
         /\ exitCode' = [exitCode EXCEPT ![r] = sync_exit_status(load_config(cfg))]
         /\ UNCHANGED <<lockVars, fsVars, skipResult, pureVars, migrateVars, scratch, copied, dryRun, force,
                        wpc, kind, results, errors, stdout, copies, cmd>>

(* ConfigSpec: one sync command started over any configuration file.       *)
ConfigNext ==
    \/ \E r \in {1}, cfg \in ConfigFiles, d \in BOOLEAN, f \in BOOLEAN :
         SyncCommand(r, cfg, d, f)
    \/ \E c \in WorkersOf(1) : SyncOneVar(c)
    \/ \E c \in WorkersOf(1) : WorkerLockAttempt(c)
    \/ \E c \in WorkersOf(1) : WorkerLockFailed(c)
    \/ \E c \in WorkersOf(1) : WorkerLockWake(c)
    \/ \E c \in WorkersOf(1) : WorkerFinalize(c)
    \/ \E c \in WorkersOf(1), rc \in RsyncOutcomes : Copy(c, rc, FALSE)
    \/ \E c \in WorkersOf(1) : WriteMarker(c)
    \/ \E c \in WorkersOf(1) : Leave(c)
    \/ \E r \in {1} : Exit(r)
    \/ SyncTick

ConfigSpec == SelectInit /\ [][ConfigNext]_vars

\* the enabled resources of the loaded configuration
EnabledOf(cfg) == {n \in Resources : cfg.vars[n].enabled}

\* run_sync line 32
CallCheckCongruency ==
    /\ ~warnings.called
    /\ warnings' = Returned(check_congruency(config, environ))
    /\ UNCHANGED <<lockVars, fsVars, skipResult, syncVars, environ, config,
                   scratch_path, printed, migrateVars>>

\* run_sync lines 33-67: the warnings are printed on stderr, then the
\* resources are selected and submitted
RunSync(r, d, f, only_vars) ==
    /\ warnings.called
    /\ StartSyncOnly(r, d, f, EnabledOf(config), only_vars)

(* CongruencySpec: check_congruency over any environment and any           *)
(* configuration of A (B: one source), followed by a dry run of sync.       *)
CongruencyInit ==
    /\ now = 0
    /\ lockTimeout = SyncTimeout
    /\ pollInterval = 1
    /\ CallersInit
    /\ skipIfFresh = SyncFresh
    /\ source = [v \in Resources |-> Source("ok", 0, {0})]
    /\ marker \in [Resources -> {AbsentMarker, Marker("nondict", 0, 0)}]
    /\ marker["A"] = AbsentMarker
    /\ NoRuns
    /\ skipResult = <<"none", "none">>
    /\ environ \in [EnvNames -> {Unset} \cup {Set(p) : p \in EnvPaths}]
    /\ environ["B"] \in {Unset, Set(<<"new", ".", "hf">>)}
    /\ environ["VENVS"] \in {Unset, Set(<<"new", "hf">>)}
    /\ config \in [vars : [Resources -> [source : SourcePaths, enabled : BOOLEAN]],
                   apptainer : {NoApptainer}
                               \cup {Apptainer(n, d) : n \in EnvNames, d \in BOOLEAN},
                   rsync_extra_args : {<<>>},
                   parallel_jobs : {4}]
    /\ config.vars["B"].source = <<"new", "hf">>
    /\ warnings = NotCalled
    /\ NoQuoting
    /\ NoMigration

CongruencyNext ==
    \/ CallCheckCongruency
    \/ \E r \in {1}, f \in BOOLEAN, only_vars \in Selections : RunSync(r, TRUE, f, only_vars)
    \/ \E c \in WorkersOf(1) : SyncOneVar(c)
    \/ \E r \in {1} : Exit(r)

CongruencySpec == CongruencyInit /\ [][CongruencyNext]_vars

(* QuoteSpec: the export line of run_sync printed for any scratch path of  *)
(* up to MaxLen characters.                                                 *)
QuoteInit ==
    /\ now = 0
    /\ lockTimeout = SyncTimeout
    /\ pollInterval = 1
    /\ CallersInit
    /\ skipIfFresh = SyncFresh
    /\ source = [v \in Resources |-> Source("ok", 0, {0})]
    /\ marker = [v \in Resources |-> AbsentMarker]
    /\ NoRuns
    /\ skipResult = <<"none", "none">>
    /\ NoCongruency
    /\ scratch_path \in Strings
    /\ printed = <<>>
    /\ NoMigration

\* run_sync line 97: print(f"export {name}={_shell_quote(str(scratch_path))}")
PrintExport(n) ==
    /\ printed = <<>>
    /\ printed' = <<"export", n, _shell_quote(scratch_path)>>
    /\ UNCHANGED <<lockVars, fsVars, skipResult, syncVars, environ, config,
                   warnings, scratch_path, migrateVars>>

QuoteNext == \E n \in Resources : PrintExport(n)

QuoteSpec == QuoteInit /\ [][QuoteNext]_vars

(* FairRunSpec: one sync run over both resources (sources present, no      *)
(* marker yet, dry run or not) in which every worker                        *)
(* thread that can take a step does so, every rsync child ends and the      *)
(* clock keeps running; another process may hold the lock of A for ever.    *)
\* the clock of FairRunSpec: a worker submitted to the pool has begun by
\* tick MaxStart
FairTick ==
    /\ \A c \in Callers : wpc[c] = "start" => now < MaxStart
    /\ Tick
    /\ UNCHANGED <<fsVars, skipResult, pureVars, migrateVars, syncVars>>

FairRunNext ==
    \/ \E r \in {1}, d \in BOOLEAN : now <= MaxStart /\ StartSync(r, d, FALSE)
    \/ \E c \in WorkersOf(1) : SyncOneVar(c)
    \/ \E c \in WorkersOf(1) : WorkerLockAttempt(c)
    \/ \E c \in WorkersOf(1) : WorkerLockFailed(c)
    \/ \E c \in WorkersOf(1) : WorkerLockWake(c)
    \/ \E c \in WorkersOf(1) : WorkerFinalize(c)
    \/ \E c \in WorkersOf(1), rc \in RsyncOutcomes : Copy(c, rc, FALSE)
    \/ \E c \in WorkersOf(1) : WriteMarker(c)
    \/ \E c \in WorkersOf(1) : Leave(c)
    \/ \E r \in {1} : Exit(r)
    \/ \E v \in {"A"} : ForeignLock(v)
    \/ \E v \in {"A"} : ForeignUnlock(v)
    \/ FairTick

FairRunSpec ==
    /\ RaceInit
    /\ [][FairRunNext]_vars
    /\ \A c \in WorkersOf(1) :
         /\ WF_vars(SyncOneVar(c))
         /\ WF_vars(WorkerLockAttempt(c))
         /\ WF_vars(WorkerLockFailed(c))
         /\ WF_vars(WorkerLockWake(c))
         /\ WF_vars(\E rc \in RsyncOutcomes : Copy(c, rc, FALSE))
         /\ WF_vars(WriteMarker(c))
         /\ WF_vars(Leave(c))
    /\ WF_vars(Exit(1))
    /\ WF_vars(FairTick)

(* PartialSpec: two plain sync runs, one after the other, over unchanging  *)
(* sources, in which rsync never exits 0: every child ends with a partial   *)
(* transfer (23), vanished source files (24) or a plain error (1).          *)
Rsync(n) == [found |-> TRUE, returncode |-> n]
PartialOutcomes == {Rsync(n) : n \in {1, 23, 24}}

PartialNext ==
    \/ \E r \in {1} : StartSync(r, FALSE, FALSE)
    \/ \E r \in Runs \ {1} : After(r) /\ StartSync(r, FALSE, FALSE)
    \/ \E c \in Callers : SyncOneVar(c)
    \/ \E c \in Callers : WorkerLockAttempt(c)
    \/ \E c \in Callers, rc \in PartialOutcomes : Copy(c, rc, FALSE)
    \/ \E c \in Callers : WriteMarker(c)
    \/ \E c \in Callers : Leave(c)
    \/ \E r \in Runs : Exit(r)
    \/ \E r \in Runs : ProcessEnd(r)
    \/ SyncTick

PartialSpec == RaceInit /\ [][PartialNext]_vars

(* PoolSpec: one sync run whose ThreadPoolExecutor has parallel_jobs         *)
(* threads. A submitted worker waits in "start" until a thread is idle.     *)
MaxJobs == 2
MigrateOutcomes == {Rsync(n) : n \in {0, 1, 23}}

\* the workers of run r that a thread of the pool is executing
Busy(r) == {c \in WorkersOf(r) : wpc[c] \in {"lock", "copied", "marked"}}

\* (mutant) the pool starts every submitted worker at once
IdleThread_unbounded(r) == TRUE

\* ThreadPoolExecutor(max_workers=config.parallel_jobs), sync.py line 55:
\* a queued worker is started only while fewer than max_workers are running
IdleThread(r) == Cardinality(Busy(r)) < config.parallel_jobs

PoolInit ==
    /\ now = 0
    /\ lockTimeout = SyncTimeout
    /\ pollInterval = 1
    /\ CallersInit
    /\ skipIfFresh = SyncFresh
    /\ source \in [Resources -> {MissingSource, Source("ok", 0, {0})}]
    /\ marker \in [Resources -> {AbsentMarker, Marker("record", 0, 0)}]
    /\ NoRuns
    /\ skipResult = <<"none", "none">>
    /\ NoQuoting
    /\ NoMigration
    /\ environ = [n \in EnvNames |-> Unset]
    /\ warnings = NotCalled
    /\ config \in [vars : {[n \in Resources |-> [source |-> HomePath, enabled |-> TRUE]]},
                   apptainer : {NoApptainer},
                   rsync_extra_args : {<<>>},
                   parallel_jobs : 1..MaxJobs]

PoolNext ==
    \/ \E r \in {1}, f \in BOOLEAN : StartSync(r, FALSE, f)
    \/ \E c \in WorkersOf(1) : IdleThread(RunOf(c)) /\ SyncOneVar(c)
    \/ \E c \in WorkersOf(1) : WorkerLockAttempt(c)
    \/ \E c \in WorkersOf(1) : WorkerLockFailed(c)
    \/ \E c \in WorkersOf(1) : WorkerLockWake(c)
    \/ \E c \in WorkersOf(1), rc \in MigrateOutcomes : Copy(c, rc, FALSE)
    \/ \E c \in WorkersOf(1) : WriteMarker(c)
    \/ \E c \in WorkersOf(1) : Leave(c)
    \/ \E r \in {1} : Exit(r)
    \/ \E v \in {"A"} : ForeignLock(v)
    \/ \E v \in {"A"} : ForeignUnlock(v)
    \/ SyncTick

PoolSpec == PoolInit /\ [][PoolNext]_vars

(* PushRaceSpec: a sync of A and a push, started in either order and        *)
(* running at the same time; the scratch directory of A may exist already.  *)
PushRaceInit ==
    /\ now = 0
    /\ lockTimeout = SyncTimeout
    /\ pollInterval = 1
    /\ CallersInit
    /\ skipIfFresh = SyncFresh
    /\ source = [v \in Resources |-> Source("ok", 0, {0})]
    /\ marker = [v \in Resources |-> AbsentMarker]
    /\ scratch \in [Resources -> BOOLEAN] /\ ~scratch["B"]
    /\ copied = [v \in Resources |-> MissingSource]
    /\ runKind = [r \in Runs |-> "none"]
    /\ dryRun = [r \in Runs |-> FALSE]
    /\ force = [r \in Runs |-> FALSE]
    /\ phase = [r \in Runs |-> "idle"]
    /\ exitCode = [r \in Runs |-> 0]
    /\ wpc = [c \in Callers |-> "none"]
    /\ kind = [c \in Callers |-> "none"]
    /\ results = [r \in Runs |-> <<>>]
    /\ errors = [r \in Runs |-> <<>>]
    /\ stdout = [r \in Runs |-> <<>>]
    /\ copies = [c \in Callers |-> 0]
    /\ cmd = [c \in Callers \cup {0} |-> NoCommand]
    /\ skipResult = <<"none", "none">>
    /\ PureIdle

PushRaceNext ==
    \/ \E r \in {1} : StartSyncOnly(r, FALSE, TRUE, Resources, Only({"A"}))
    \/ \E r \in {2} : StartPush(r, FALSE)
    \/ \E c \in Callers : SyncOneVar(c)
    \/ \E c \in Callers : PushOneVar(c)
    \/ \E c \in Callers : WorkerLockAttempt(c)
    \/ \E c \in Callers : WorkerLockFailed(c)
    \/ \E c \in Callers : WorkerLockWake(c)
    \/ \E c \in Callers, rc \in MigrateOutcomes, grew \in BOOLEAN : Copy(c, rc, grew)
    \/ \E c \in Callers : WriteMarker(c)
    \/ \E c \in Callers : Leave(c)
    \/ \E r \in Runs : Exit(r)
    \/ SyncTick

PushRaceSpec == PushRaceInit /\ [][PushRaceNext]_vars

(* EvalSpec: `ef sync` twice in one shell. The shell function evaluates     *)
(* what the first process printed on stdout before the second one starts.   *)
Exported(r) == {n \in Resources : \E i \in 1..Len(stdout[r]) : stdout[r][i] = ExportLine(n)}

\* shell.py lines 25-27: eval "$(euler-files sync "$@")" sets every exported
\* variable to its scratch path; the process that printed the lines, and
\* the warnings it computed, are gone
Eval(r) ==
    /\ phase[r] = "gone" /\ runKind[r] = "sync"
    /\ warnings.called
    /\ environ' = [n \in EnvNames |->
                     IF n \in Exported(r) THEN Set(scratch_dir_for(n)) ELSE environ[n]]
    /\ warnings' = NotCalled
    /\ UNCHANGED <<lockVars, fsVars, skipResult, syncVars, config, scratch_path,
                   printed, migrateVars>>

EvalInit ==
    /\ now = 0
    /\ lockTimeout = SyncTimeout
    /\ pollInterval = 1
    /\ CallersInit
    /\ skipIfFresh = SyncFresh
    /\ source \in [Resources -> {MissingSource, Source("ok", 0, {0})}]
    /\ marker = [v \in Resources |-> AbsentMarker]
    /\ NoRuns
    /\ skipResult = <<"none", "none">>
    /\ NoQuoting
    /\ NoMigration
    /\ environ \in [EnvNames -> {Unset, Set(HomePath)}]
    /\ ~environ["VENVS"].set
    /\ warnings = NotCalled
    /\ config \in [vars : [Resources -> [source : {HomePath}, enabled : BOOLEAN]],
                   apptainer : {NoApptainer},
                   rsync_extra_args : {<<>>},
                   parallel_jobs : {4}]

EvalNext ==
    \/ CallCheckCongruency
    \/ \E r \in {1}, d \in BOOLEAN : RunSync(r, d, FALSE, None)
    \/ \E r \in {2}, d \in BOOLEAN : After(r) /\ RunSync(r, d, FALSE, None)
    \/ \E c \in Callers : SyncOneVar(c)
    \/ \E c \in Callers : WorkerLockAttempt(c)
    \/ \E c \in Callers, rc \in {Rsync(0), Rsync(1)} : Copy(c, rc, FALSE)
    \/ \E c \in Callers : WriteMarker(c)
    \/ \E c \in Callers : Leave(c)
    \/ \E r \in Runs : Exit(r)
    \/ \E r \in Runs : ProcessEnd(r)
    \/ \E r \in {1} : phase[2] = "idle" /\ Eval(r)

EvalSpec == EvalInit /\ [][EvalNext]_vars

(* ----------------------- migrate.py: run_migrate ----------------------- *)
\* run_migrate moves the source of one managed variable; its rsync command
\* is kept at index Migrator of cmd
Migrator == 0
What == "A"

\* to_path arguments: another directory, and the old one written differently
MigrateTargets == {<<"old", "hf">>, <<"new", ".", "hf">>}

\* what rsync leaves in the target when it stops early: some children missing
Partial(src) ==
    {[src EXCEPT !.children = ch] : ch \in (SUBSET src.children) \ {src.children}}

\* dest.mkdir(parents=True, exist_ok=True), line 77
mkdir(dir) == IF dir.state = "missing" THEN Source("ok", now, {}) ELSE dir

\* the target of `rsync -a --delete old/ new/` after the child exited with rc
Mirrored(rc) ==
    IF ~rc.found THEN {mkdir(other)}
    ELSE IF rc.returncode = 0 THEN {source[What]}
    ELSE IF rc.returncode \in {23, 24} THEN Partial(source[What])
    ELSE {mkdir(other)}

\* lines 37-64: load_config, _resolve_target, the two validations, the plan
\* and the dry-run return
StartMigrate(tp, d, k, y) ==
    /\ mpc = "idle"
    /\ to_path' = tp
    /\ keep_old' = k
    /\ yes' = y
    /\ mpc' = IF resolve(tp) = resolve(config.vars[What].source) THEN "ValueError"
              ELSE IF source[What].state = "missing" THEN "FileNotFoundError"
              ELSE IF d THEN "dryrun"
              ELSE IF y THEN "rsync"
              ELSE "confirm"
    /\ UNCHANGED <<lockVars, fsVars, skipResult, syncVars, pureVars, other, steps>>

\* lines 67-72: Confirm.ask("Proceed with migration?")
MigrateConfirm(answer) ==
    /\ mpc = "confirm"
    /\ mpc' = IF answer THEN "rsync" ELSE "aborted"
    /\ UNCHANGED <<lockVars, fsVars, skipResult, syncVars, pureVars, other,
                   to_path, keep_old, yes, steps>>

\* lines 74-79: run_rsync(source=old_path, target=dest, delete=True)
MigrateCopy(rc) ==
    /\ mpc = "rsync"
    /\ cmd' = [cmd EXCEPT ![Migrator] =
                 rsync_cmd(config.vars[What].source, to_path, <<>>, FALSE, TRUE)]
    /\ other' \in Mirrored(rc)
    /\ steps' = Append(steps, [step |-> "rsync", returncode |-> rc.returncode])
    /\ mpc' = IF run_rsync_returns(rc) THEN "copied" ELSE run_rsync(rc)
    /\ UNCHANGED <<lockVars, fsVars, skipResult, pureVars, to_path, keep_old, yes,
                   scratch, copied, runKind, dryRun, force, phase, exitCode, wpc,
                   kind, results, errors, stdout, copies>>

\* _update_config_field lines 151-161
_update_config_field(cfg, what, new_path) ==
    [cfg EXCEPT !.vars[what].source = new_path]

\* lines 86-99: the configuration is updated and saved; from here on the
\* source of What is the directory at to_path, and `other` the old one
MigrateSave ==
    /\ mpc = "copied"
    /\ config' = _update_config_field(config, What, to_path)
    /\ source' = [source EXCEPT ![What] = other]
    /\ other' = source[What]
    /\ steps' = Append(steps, [step |-> "save", returncode |-> 0])
    /\ mpc' = IF keep_old THEN "done" ELSE "remove"
    /\ UNCHANGED <<lockVars, skipIfFresh, marker, skipResult, syncVars, environ,
                   warnings, scratch_path, printed, to_path, keep_old, yes>>

\* (mutant) the old directory is removed whatever keep_old says
MigrateRemove_always(answer) ==
    /\ mpc = "done" /\ keep_old /\ other.state # "missing"
    /\ other' = MissingSource
    /\ steps' = Append(steps, [step |-> "rmtree", returncode |-> 0])
    /\ UNCHANGED <<lockVars, fsVars, skipResult, syncVars, pureVars, mpc, to_path,
                   keep_old, yes>>

\* lines 101-111: shutil.rmtree(old_path_str) unless the user declines
MigrateRemove(answer) ==
    /\ mpc = "remove"
    /\ mpc' = "done"
    /\ IF yes \/ answer
       THEN /\ other' = MissingSource
            /\ steps' = Append(steps, [step |-> "rmtree", returncode |-> 0])
       ELSE UNCHANGED <<other, steps>>
    /\ UNCHANGED <<lockVars, fsVars, skipResult, syncVars, pureVars, to_path,
                   keep_old, yes>>

(* MigrateSpec: a sync or a push of A, a migration of A, and a second sync, *)
(* one after the other; rsync_extra_args is any of the configured lists.    *)
ExtraArgs == {<<>>, <<"--delete">>}
MigrateCopyOutcomes == MigrateOutcomes \cup {[found |-> FALSE, returncode |-> 0]}

\* no sync or push is under way, and run_migrate is not between two steps
NoRunUnderWay == \A r \in Runs : phase[r] # "running"
NoMigrationUnderWay == mpc \notin {"confirm", "rsync", "copied", "remove"}

MigrateInit ==
    /\ now = 0
    /\ lockTimeout = SyncTimeout
    /\ pollInterval = 1
    /\ CallersInit
    /\ skipIfFresh = SyncFresh
    /\ source = [v \in Resources |-> Source("ok", 0, {0})]
    /\ marker = [v \in Resources |-> AbsentMarker]
    /\ NoRuns
    /\ skipResult = <<"none", "none">>
    /\ NoQuoting
    /\ environ = [n \in EnvNames |-> Unset]
    /\ warnings = NotCalled
    /\ config \in [vars : {[n \in Resources |-> [source |-> HomePath, enabled |-> TRUE]]},
                   apptainer : {NoApptainer},
                   rsync_extra_args : ExtraArgs,
                   parallel_jobs : {4}]
    /\ other \in {MissingSource, Source("ok", 1, {1})}
    /\ mpc = "idle"
    /\ to_path = <<>>
    /\ keep_old = FALSE
    /\ yes = FALSE
    /\ steps = <<>>

MigrateNext ==
    \/ \E r \in {1}, f \in BOOLEAN : NoMigrationUnderWay /\ StartSyncOnly(r, FALSE, f, Resources, Only({What}))
    \/ \E r \in {2} : NoMigrationUnderWay /\ After(r) /\ StartSyncOnly(r, FALSE, FALSE, Resources, Only({What}))
    \/ \E r \in {2} : NoMigrationUnderWay /\ After(r) /\ StartPush(r, FALSE)
    \/ \E c \in Callers : SyncOneVar(c)
    \/ \E c \in Callers : PushOneVar(c)
    \/ \E c \in Callers : WorkerLockAttempt(c)
    \/ \E c \in Callers, rc \in MigrateOutcomes : Copy(c, rc, FALSE)
    \/ \E c \in Callers : WriteMarker(c)
    \/ \E c \in Callers : Leave(c)
    \/ \E r \in Runs : Exit(r)
    \/ \E r \in Runs : ProcessEnd(r)
    \/ \E tp \in MigrateTargets, d \in BOOLEAN, k \in BOOLEAN, y \in BOOLEAN :
          NoRunUnderWay /\ StartMigrate(tp, d, k, y)
    \/ \E answer \in BOOLEAN : MigrateConfirm(answer)
    \/ \E rc \in MigrateCopyOutcomes : MigrateCopy(rc)
    \/ MigrateSave
    \/ \E answer \in BOOLEAN : MigrateRemove(answer)
    \/ SyncTick

MigrateSpec == MigrateInit /\ [][MigrateNext]_vars

(* ------------------------------ lock claims ---------------------------- *)
InSection(c) == pc[c] = "section"
Polling(c)   == pc[c] \in {"try", "except", "sleep"} /\ ~thrown[c]
HeldByOther(c) == lockPath[c] \in Resources /\ holder[lockPath[c]] \notin {0, c}

\* C1: at most one caller is inside the protected section of a lock path at
\* any instant, and a caller inside the section holds the flock itself.
C1_MutualExclusion ==
    /\ \A c1, c2 \in Callers :
         (c1 # c2 /\ InSection(c1) /\ InSection(c2)) => lockPath[c1] # lockPath[c2]
    /\ \A c \in Callers : InSection(c) => holder[lockPath[c]] = c

\* C1 witness: one caller is in its section while another has found the same
\* lock held and waits.
C1_Witness ==
    \E c1, c2 \in Callers :
        /\ InSection(c1) /\ pc[c2] = "sleep" /\ ~thrown[c2]
        /\ lockPath[c1] = lockPath[c2]

\* C2: while another party holds the lock the caller never enters the
\* section; a failed attempt ends in LockTimeout exactly when the elapsed time
\* it measures is >= timeout; every sleep is min(pollInterval, timeout -
\* elapsed), so no sleep ends later than start + timeout; and a caller that
\* keeps finding the lock held eventually fails with LockTimeout.
C2_SleepIsMin(c) ==
    pc[c] = "sleep" =>
        /\ elapsed[c] < lockTimeout
        /\ wait[c] <= pollInterval /\ wait[c] <= lockTimeout - elapsed[c]
        /\ (wait[c] = pollInterval \/ wait[c] = lockTimeout - elapsed[c])
        /\ wakeAt[c] <= start[c] + lockTimeout

C2_TimeoutStep(c) ==
    (pc[c] = "except" /\ pc'[c] # "except") =>
        /\ (now - start[c] >= lockTimeout) <=> (outcome'[c] = "LockTimeout")
        /\ (now - start[c] < lockTimeout) <=> (pc'[c] = "sleep")

C2_BoundedWait ==
    /\ [](\A c \in FairCallers : C2_SleepIsMin(c))
    /\ [](\A c \in FairCallers : InSection(c) => ~HeldByOther(c))
    /\ [][\A c \in FairCallers : C2_TimeoutStep(c)]_vars
    /\ \A c \in FairCallers :
         (Polling(c) /\ HeldByOther(c)) ~>
             (outcome[c] = "LockTimeout" \/ ~HeldByOther(c))

\* C2 witness: a caller gave up with LockTimeout while the other party was
\* still inside its section.
C2_Witness ==
    \E c, o \in FairCallers :
        /\ outcome[c] = "LockTimeout" /\ ~thrown[c]
        /\ InSection(o) /\ lockPath[o] = lockPath[c]
        /\ elapsed[c] >= lockTimeout /\ lockTimeout > 0

\* C3: once the with-statement of a caller has ended (returned, raised or
\* timed out) the caller does not hold the flock and its handle is closed.
C3_ReleasedAfterExit ==
    \A c \in Callers :
        outcome[c] # "none" => (holder[lockPath[c]] # c /\ ~fpOpen[c])

\* C3 (holding part): a with-statement that ended normally, with a
\* propagated exception or with LockTimeout has released the flock.
Released(c) == pc[c] = "exited" /\ holder[lockPath[c]] # c

\* C4 (as first stated): with two callers on one path, an attempt on a free
\* lock enters the section at once; if the first holder releases before the
\* second's timeout has elapsed and the second still has an attempt to make,
\* the second eventually enters; if the first still holds the lock when the
\* second's timeout has elapsed, the second never enters.
C4_FirstImmediately(c) ==
    (pc[c] = "try" /\ ~thrown[c] /\ holder[lockPath[c]] = 0 /\ pc'[c] # "try")
        => (pc'[c] = "section" /\ holder'[lockPath[c]] = c)

C4_AsStated ==
    /\ [][\A c \in FairCallers : C4_FirstImmediately(c)]_vars
    /\ \A a, b \in FairCallers :
         (a # b /\ Released(a) /\ Polling(b) /\ pc[b] \in {"try", "sleep"}
                /\ now < start[b] + lockTimeout)
             ~> InSection(b)
    /\ \A a, b \in FairCallers :
         []((a # b /\ Polling(b) /\ holder[lockPath[b]] = a
                   /\ now >= start[b] + lockTimeout)
             => [](~InSection(b)))

\* C4 (amended): an attempt on a free lock enters the section at once; the
\* second enters only by an attempt that finds the lock free, hence strictly
\* after the first released it, and it does so whenever the first has
\* released while the second is still to make an attempt; an attempt fails
\* only when the other caller holds the lock; and a polling caller always
\* ends either inside the section or with LockTimeout.
C4_EntersOnlyWhenFree(c) ==
    (~InSection(c) /\ InSection(c)') => holder[lockPath[c]'] = 0

C4_FailsOnlyWhenHeld(c) ==
    (pc[c] = "try" /\ pc'[c] = "except") => HeldByOther(c)

C4_Handover ==
    /\ [][\A c \in FairCallers : C4_FirstImmediately(c)]_vars
    /\ [][\A c \in FairCallers : C4_EntersOnlyWhenFree(c)]_vars
    /\ [][\A c \in FairCallers : C4_FailsOnlyWhenHeld(c)]_vars
    /\ \A a, b \in FairCallers :
         (a # b /\ Released(a) /\ Polling(b) /\ pc[b] \in {"try", "sleep"})
             ~> InSection(b)
    /\ \A b \in FairCallers :
         Polling(b) ~> (InSection(b) \/ outcome[b] = "LockTimeout")
    /\ \A b \in FairCallers :
         (Polling(b) /\ HeldByOther(b)) ~>
             (outcome[b] = "LockTimeout" \/ ~HeldByOther(b))

\* C4 witness: the second caller is inside the section after having waited
\* for the first, which has released.
C4_Witness ==
    \E a, b \in FairCallers :
        /\ a # b /\ Released(a) /\ outcome[a] = "returned"
        /\ InSection(b) /\ elapsed[b] > 0

(* ----------------------------- marker claims --------------------------- *)
\* The fingerprint as the specification words it: the largest of the
\* directory's own mtime and the mtimes of the children that can be listed.
Readable(src) == src.state \in {"ok", "nolist"}
Fingerprint(src) ==
    CHOOSE f \in {src.mtime} \cup src.children :
        /\ f >= src.mtime
        /\ src.state = "nolist" => f = src.mtime
        /\ src.state # "nolist" => \A x \in src.children : f >= x

SkipAllowed(v) ==
    /\ marker[v].kind = "record"
    /\ now - marker[v].synced_at <= skipIfFresh
    /\ Readable(source[v])
    /\ Fingerprint(source[v]) <= marker[v].source_mtime

\* C6: should_skip returns true exactly when a parseable marker exists, it
\* is no older than the freshness window and the source's fingerprint does
\* not exceed the recorded one; in every other case it returns false.
C6_ShouldSkipIff ==
    \A v \in Resources :
        skipResult[1] = v =>
            skipResult[2] = (IF SkipAllowed(v) THEN "True" ELSE "False")

\* C6 on the marker files the claim lists (absent, not JSON, a record): the
\* equivalence holds.
ListedMarker(v) == marker[v].kind \in {"absent", "garbage", "unreadable", "record"}
C6_OnListedMarkers ==
    \A v \in Resources :
        (skipResult[1] = v /\ ListedMarker(v)) =>
            skipResult[2] = (IF SkipAllowed(v) THEN "True" ELSE "False")

C6_Witness ==
    /\ skipResult = <<"A", "True">>
    /\ source["A"].children # {} /\ now > marker["A"].synced_at

(* ------------------------- orchestrator claims ------------------------- *)
SyncRun(r)  == runKind[r] = "sync"
PlainRun(r) == runKind[r] = "sync" /\ ~dryRun[r] /\ ~force[r]
Decides(c)  == wpc[c] = "start" /\ wpc'[c] # "start"
Ends(c)     == wpc[c] # "done" /\ wpc'[c] = "done"
ErrorNames(r) == {errors[r][i][1] : i \in 1..Len(errors[r])}
LineNames(r)  == [i \in 1..Len(stdout[r]) |-> stdout[r][i].text[2]]
Emitted(r)    == {LineNames(r)[i] : i \in 1..Len(stdout[r])}

\* C5: the marker of a resource changes only in a step of a worker of that
\* resource for which run_rsync has returned in this run and which holds the
\* resource's flock before and after the step; a worker that wrote a
\* marker ends as copied, so a failed copy, a lock timeout, a skip, a dry
\* run and a missing source leave the marker alone.
C5_WriterOf(v, c) ==
    /\ NameOf(c) = v /\ phase[RunOf(c)] = "running"
    /\ wpc[c] = "copied" /\ copies[c] = 1 /\ pc[c] = "section"
    /\ holder[v] = c /\ holder'[v] = c
    /\ wpc'[c] = "marked"

C5_MarkerStep ==
    /\ \A v \in Resources :
         marker'[v] # marker[v] => \E c \in Callers : C5_WriterOf(v, c)
    /\ \A c \in Callers :
         (wpc[c] = "marked" /\ wpc'[c] \notin {"marked", "none"}) => kind'[c] = "copied"
    /\ \A c \in Callers :
         (Ends(c) /\ kind'[c] # "copied") => marker'[NameOf(c)] = marker[NameOf(c)]

C5_MarkerAfterCopy == [][C5_MarkerStep]_vars

\* C5 witness: a push worker has just written the marker under the lock
\* after its copy returned, and a sync worker has written one before it.
C5_Witness ==
    \E c \in Callers :
        /\ wpc[c] = "marked" /\ runKind[RunOf(c)] = "push"
        /\ marker[NameOf(c)].kind = "record" /\ holder[NameOf(c)] = c
        /\ \E v \in Resources \ {NameOf(c)} : marker[v].kind = "record"

\* C7 (as first stated): with a marker still inside the freshness window
\* and a source fingerprint above the recorded one, should_skip returns
\* false, the worker of a sync run does not skip, and unless the run is a
\* dry run it ends having run the copy.
Changed(v) ==
    /\ marker[v].kind = "record"
    /\ now - marker[v].synced_at <= skipIfFresh
    /\ Readable(source[v])
    /\ Fingerprint(source[v]) > marker[v].source_mtime

C7_NoSkip(c) ==
    (SyncRun(RunOf(c)) /\ Changed(NameOf(c))) =>
        /\ should_skip(NameOf(c)) = "False"
        /\ Decides(c) =>
             IF dryRun[RunOf(c)] THEN kind'[c] = "dryrun" ELSE wpc'[c] = "lock"

C7_AsStated ==
    [][\A c \in Callers :
         /\ C7_NoSkip(c)
         /\ (SyncRun(RunOf(c)) /\ Changed(NameOf(c)) /\ wpc[c] = "lock" /\ Ends(c))
               => copies'[c] = 1]_vars

\* C7 (amended): ... and unless the run is a dry run it goes on to the
\* resource's lock; it then ends having run the copy, or without a copy
\* because it could not obtain the lock within the lock timeout.
C7_CopiesUnlessTimeout ==
    [][\A c \in Callers :
         /\ C7_NoSkip(c)
         /\ (SyncRun(RunOf(c)) /\ Changed(NameOf(c)) /\ wpc[c] = "lock" /\ Ends(c))
               => \/ copies'[c] = 1
                  \/ /\ copies'[c] = 0 /\ outcome'[c] = "LockTimeout"
                     /\ kind'[c] = "failed"
         /\ (SyncRun(RunOf(c)) /\ wpc[c] = "lock" /\ pc[c] = "section"
               /\ wpc'[c] # "lock")
               => copies'[c] = 1]_vars

\* C7 witness: the second run copied resource A again although its marker
\* was still fresh, because a top-level entry had changed since.
C7_Witness ==
    \E c \in WorkersOf(2) :
        /\ SyncRun(2) /\ ~force[2] /\ NameOf(c) = "A"
        /\ wpc[c] = "copied" /\ copies[c] = 1
        /\ Changed("A")

\* C8 (as first stated): after a plain sync run that exited 0, a second
\* plain sync run made with no source changed and every marker still inside
\* the freshness window skips every resource and copies nothing.
Untouched(v) ==
    source[v] \in InitialSources
WithinWindow(v) ==
    marker[v].kind = "record" => now - marker[v].synced_at <= skipIfFresh
Rerun(c) ==
    /\ RunOf(c) = 2 /\ PlainRun(1) /\ PlainRun(2)
    /\ phase[1] = "gone" /\ exitCode[1] = 0
    /\ \A v \in Resources : Untouched(v) /\ WithinWindow(v)

C8_Sources(c) ==
    /\ Readable(source[NameOf(c)])
       => /\ kind'[c] = "skipped" /\ copies'[c] = 0
          /\ marker[NameOf(c)].kind = "record"
    /\ source[NameOf(c)].state = "missing"
       => /\ kind'[c] = "warned" /\ copies'[c] = 0
          /\ marker[NameOf(c)] = AbsentMarker
    /\ source[NameOf(c)].state = "badchild"
       => /\ wpc'[c] = "lock"
          /\ marker[NameOf(c)].kind = "record" /\ marker[NameOf(c)].source_mtime = 0

C9_WorkerStep(c) ==
    \/ SyncOneVar(c) \/ PushOneVar(c) \/ WorkerLockAttempt(c)
    \/ WorkerLockFailed(c) \/ WorkerLockWake(c)
    \/ \E rc \in RsyncOutcomes : Copy(c, rc, FALSE)
    \/ WriteMarker(c) \/ Leave(c)

C9_Summary(r) ==
    (phase[r] = "done" /\ SyncRun(r)) =>
        /\ \A c \in WorkersOf(r) :
             /\ kind[c] = "failed" <=> NameOf(c) \in ErrorNames(r)
             /\ kind[c] # "failed" <=> NameOf(c) \in Emitted(r)
        /\ exitCode[r] = 1 <=> \E c \in WorkersOf(r) : kind[c] = "failed"
        /\ exitCode[r] \in {0, 1}

C9_Recorded(c) ==
    (Ends(c) /\ kind'[c] = "failed") =>
        /\ outcome'[c] \in {"LockTimeout", "RsyncError", "RuntimeError"}
        /\ errors'[RunOf(c)] = Append(errors[RunOf(c)], <<NameOf(c), outcome'[c]>>)
        /\ \A o \in Callers \ {c} :
             wpc'[o] = wpc[o] /\ pc'[o] = pc[o] /\ kind'[o] = kind[o]

C9_FailureIsolated ==
    /\ [](\A r \in Runs : C9_Summary(r))
    /\ [](\A c \in Callers :
            (SyncRun(RunOf(c)) /\ wpc[c] \notin {"none", "done"})
                => (pc[c] = "sleep" \/ ENABLED C9_WorkerStep(c)))
    /\ [][\A c \in Callers : C9_Recorded(c)]_vars

\* C9 witness: the lock of A was held by another process throughout, A
\* ended with a lock timeout, B was copied and has its line, exit status 1.
C9_Witness ==
    \E r \in Runs :
        /\ phase[r] = "done" /\ SyncRun(r) /\ holder["A"] = Foreign
        /\ errors[r] = << <<"A", "LockTimeout">> >>
        /\ kind[Worker(r, "B")] = "copied"
        /\ stdout[r] = <<ExportLine("B")>>
        /\ exitCode[r] = 1

\* C10: whatever the flags and the completion order, what a sync run has
\* written to stdout is export lines only, one for each resource that did
\* not fail and none for one that failed, in ascending order of name.
C10_Ascending(r) ==
    \A i, j \in 1..Len(stdout[r]) :
        i < j => Index(LineNames(r)[i]) < Index(LineNames(r)[j])

C10_StdoutExportsOnly ==
    \A r \in Runs :
        (phase[r] = "done" /\ SyncRun(r)) =>
            /\ \A i \in 1..Len(stdout[r]) :
                 /\ stdout[r][i].file = "stdout"
                 /\ stdout[r][i].text =
                       <<"export", LineNames(r)[i], scratch_dir_for(LineNames(r)[i])>>
            /\ C10_Ascending(r)
            /\ Emitted(r) = {NameOf(c) : c \in {w \in WorkersOf(r) : kind[w] # "failed"}}

\* C10 witness: a forced dry run whose workers finished B first, then A.
C10_Witness ==
    \E r \in Runs :
        /\ phase[r] = "done" /\ SyncRun(r) /\ dryRun[r] /\ force[r]
        /\ results[r] = <<"B", "A">>
        /\ stdout[r] = <<ExportLine("A"), ExportLine("B")>>

\* C11: a sync run's exit status is non-zero exactly when one of its
\* resources failed; it is fixed by a step before which every selected
\* resource has finished and after which the line of every resource that did
\* not fail is on stdout; until then the run has signalled nothing.
C11_Signalled(r) ==
    /\ \A c \in WorkersOf(r) : wpc[c] = "done"
    /\ \A c \in WorkersOf(r) : kind[c] # "failed" => NameOf(c) \in Emitted(r)
    /\ exitCode[r] # 0 <=> \E c \in WorkersOf(r) : kind[c] = "failed"

C11_SignalStep(r) ==
    (SyncRun(r) /\ (exitCode'[r] # exitCode[r] \/ (phase[r] = "running" /\ phase'[r] = "done")))
        => /\ \A c \in WorkersOf(r) : wpc[c] = "done" /\ wpc'[c] = "done"
           /\ \A c \in WorkersOf(r) :
                kind[c] # "failed" => ExportLine(NameOf(c)) \in
                    {stdout'[r][i] : i \in 1..Len(stdout'[r])}

C11_ExitAfterEmit ==
    /\ [](\A r \in Runs : (SyncRun(r) /\ phase[r] = "running") => exitCode[r] = 0)
    /\ [](\A r \in Runs : (SyncRun(r) /\ phase[r] = "done") => C11_Signalled(r))
    /\ [][\A r \in Runs : C11_SignalStep(r)]_vars

\* C11 witness: B's copy failed, A was copied; the run has printed A's line
\* and exits 1.
C11_Witness ==
    \E r \in Runs :
        /\ SyncRun(r) /\ phase[r] = "done" /\ exitCode[r] = 1
        /\ errors[r] = << <<"B", "RsyncError">> >>
        /\ kind[Worker(r, "A")] = "copied"
        /\ stdout[r] = <<ExportLine("A")>>

\* C12: a sync worker that finds its source missing creates the target
\* directory and returns as warned in that one step: it takes no lock, runs
\* no copy, writes no marker and adds nothing to the error list; its name
\* gets an export line, and it does not make the exit status non-zero.  The
\* same holds in a run repeated afterwards.
C12_MissingStep(c) ==
    (SyncRun(RunOf(c)) /\ Decides(c) /\ source[NameOf(c)].state = "missing") =>
        /\ scratch'[NameOf(c)]
        /\ wpc'[c] = "done" /\ kind'[c] = "warned"
        /\ results'[RunOf(c)] = Append(results[RunOf(c)], NameOf(c))
        /\ errors' = errors
        /\ pc'[c] = "idle" /\ ~fpOpen'[c] /\ holder' = holder
        /\ copies'[c] = 0
        /\ marker' = marker

C12_Warned(r) ==
    \A c \in WorkersOf(r) :
        kind[c] = "warned" =>
            /\ scratch[NameOf(c)] /\ copies[c] = 0 /\ pc[c] = "idle"
            /\ NameOf(c) \notin ErrorNames(r)
            /\ phase[r] = "done" =>
                 /\ ExportLine(NameOf(c)) \in {stdout[r][i] : i \in 1..Len(stdout[r])}
                 /\ (\A o \in WorkersOf(r) : kind[o] # "failed") => exitCode[r] = 0

C12_MissingSourceWarned ==
    /\ [](\A r \in Runs : SyncRun(r) => C12_Warned(r))
    /\ [][\A c \in Callers : C12_MissingStep(c)]_vars

\* C12 witness: B's source is missing; the first run emitted B's line and
\* exited 0, and the repeated run has warned about B again, emitted its line
\* again and exits 0; B has no marker.
C12_Witness ==
    /\ source["B"].state = "missing" /\ marker["B"] = AbsentMarker
    /\ SyncRun(1) /\ phase[1] = "gone" /\ exitCode[1] = 0
    /\ stdout[1] = <<ExportLine("A"), ExportLine("B")>>
    /\ SyncRun(2) /\ phase[2] = "done" /\ exitCode[2] = 0
    /\ kind[Worker(2, "B")] = "warned" /\ scratch["B"]
    /\ stdout[2] = <<ExportLine("A"), ExportLine("B")>>

\* C13 (frame part): while a dry-run sync is under way or has printed, none
\* of its workers has touched a lock or run a copy, and no step changes a
\* marker.
DryRunOf(r) == SyncRun(r) /\ dryRun[r] /\ phase[r] \in {"running", "done"}

C13_NoLockNoCopy ==
    \A r \in Runs : DryRunOf(r) =>
        \A c \in WorkersOf(r) :
            /\ pc[c] = "idle" /\ ~fpOpen[c] /\ holder[NameOf(c)] # c
            /\ copies[c] = 0
            /\ wpc[c] \in {"start", "done"}

C13_DryRunFrame ==
    /\ [](C13_NoLockNoCopy)
    /\ [][(\E r \in Runs : DryRunOf(r)) => marker' = marker]_vars

\* C13: ... and when it has printed, every selected resource has its export
\* line.
C13_DryRunExportsAll ==
    /\ C13_NoLockNoCopy
    /\ \A r \in Runs :
         (DryRunOf(r) /\ phase[r] = "done") => Emitted(r) = Resources

\* C15: whatever the marker file holds, should_skip does not raise, and on
\* anything but a well-formed record it returns false.
C15_CorruptIsAbsent ==
    \A v \in Resources :
        skipResult[1] = v =>
            /\ skipResult[2] \in {"True", "False"}
            /\ marker[v].kind # "record" => skipResult[2] = "False"

\* C15 on markers that are missing, not JSON or unreadable: false, no raise.
C15_OnUndecodable ==
    \A v \in Resources :
        (skipResult[1] = v /\ marker[v].kind \in {"absent", "garbage", "unreadable"})
            => skipResult[2] = "False"

\* C14: a sync worker creates the target and runs the copy, and writes the
\* marker, only in steps before and after which it holds the flock of its
\* resource; two workers of the same resource are never both between
\* obtaining the lock and leaving the with-statement; the lock path of a
\* worker is that of its own resource, different names have different lock
\* paths, and an attempt fails only when a worker of the same resource in
\* another process holds the lock.
Critical(c) == wpc[c] \in {"copied", "marked"} \/ (wpc[c] = "lock" /\ pc[c] = "section")

C14_UnderLock(c) ==
    /\ copies'[c] # copies[c] => (holder[NameOf(c)] = c /\ Critical(c))
    /\ (Critical(c) /\ scratch'[NameOf(c)] # scratch[NameOf(c)]) => copies'[c] # copies[c]
    /\ scratch'[NameOf(c)] # scratch[NameOf(c)] =>
         \E w \in Callers : NameOf(w) = NameOf(c) /\ holder[NameOf(c)] = w /\ Critical(w)
    /\ marker'[NameOf(c)] # marker[NameOf(c)] =>
         \E w \in Callers :
             /\ NameOf(w) = NameOf(c) /\ Critical(w) /\ Critical(w)'
             /\ holder[NameOf(c)] = w /\ holder'[NameOf(c)] = w

C14_OwnLock(c) ==
    /\ lockPath[c] # "none" => lockPath[c] = lock_path_for(NameOf(c))
    /\ Critical(c) => holder[NameOf(c)] = c

C14_WaitsOnlyForSameName(c) ==
    (pc[c] = "try" /\ pc'[c] = "except") =>
        /\ holder[lock_path_for(NameOf(c))] \in Callers
        /\ NameOf(holder[lock_path_for(NameOf(c))]) = NameOf(c)
        /\ RunOf(holder[lock_path_for(NameOf(c))]) # RunOf(c)

C16_CopyStep(c, rc) ==
    (rc.found /\ Copy(c, rc, FALSE)) =>
        /\ rc.returncode \in {0, 23, 24} =>
             /\ wpc'[c] = "copied" /\ pc'[c] = "section" /\ holder'[NameOf(c)] = c
             /\ errors' = errors /\ kind'[c] = kind[c]
        /\ rc.returncode \notin {0, 23, 24} =>
             /\ wpc'[c] = "done" /\ kind'[c] = "failed"
             /\ outcome'[c] = "RsyncError"
             /\ errors'[RunOf(c)] = Append(errors[RunOf(c)], <<NameOf(c), "RsyncError">>)
             /\ holder'[NameOf(c)] = 0 /\ ~fpOpen'[c]
             /\ marker' = marker

C16_ExitCodes ==
    [][\A c \in Callers, rc \in RsyncOutcomes : C16_CopyStep(c, rc)]_vars

\* C16 witness: A was copied (its marker is new), B's rsync failed: B is in
\* the error list as RsyncError and the run exits 1 with A's line alone.
C16_Witness ==
    /\ phase[1] = "done" /\ exitCode[1] = 1
    /\ kind[Worker(1, "A")] = "copied" /\ marker["A"].kind = "record"
    /\ errors[1] = << <<"B", "RsyncError">> >> /\ holder["B"] = 0
    /\ marker["B"] = AbsentMarker
    /\ stdout[1] = <<ExportLine("A")>>

\* C17: a copy step that finds no rsync on the PATH ends the worker as
\* failed, with a tool-not-found error (FileNotFoundError, neither
\* RsyncError nor LockTimeout) appended to the error list of its run and the
\* lock released.
NoRsync == [found |-> FALSE, returncode |-> 0]

C17_CopyStep(c) ==
    Copy(c, NoRsync, FALSE) =>
        /\ wpc'[c] = "done" /\ kind'[c] = "failed"
        /\ errors'[RunOf(c)] =
               Append(errors[RunOf(c)], <<NameOf(c), "FileNotFoundError">>)
        /\ holder'[NameOf(c)] = 0

C17_ToolNotFoundRecorded == [][\A c \in Callers : C17_CopyStep(c)]_vars

\* C17, what the code does instead: the OSError is caught by the except
\* clause of acquire_lock around the yield, and the worker ends with
\* RuntimeError or LockTimeout in the error list; no error list ever holds
\* a tool-not-found error.
C17_RecordedInstead ==
    \A r \in Runs : \A i \in 1..Len(errors[r]) :
        errors[r][i][2] # "FileNotFoundError"

\* C18: a sync run submits exactly the enabled resources that --var names
\* (every enabled resource without --var).  A resource that was not
\* submitted is never locked, copied, marked or exported, and a run with
\* nothing to submit ends at once with no export line and exit status 0.
Submitted(r) == {v \in Resources : wpc[Worker(r, v)] # "none"}

C18_StartStep(r, enabled, only_vars) ==
    (\E d \in BOOLEAN, f \in BOOLEAN : StartSyncOnly(r, d, f, enabled, only_vars)) =>
        LET chosen == IF only_vars.given THEN enabled \cap only_vars.names
                      ELSE enabled
        IN  /\ Submitted(r)' = chosen
            /\ chosen = {} => /\ phase'[r] = "done" /\ exitCode'[r] = 0
                              /\ stdout'[r] = <<>> /\ errors'[r] = <<>>

C18_Unselected(r, v) ==
    v \notin Submitted(r) =>
        /\ pc[Worker(r, v)] = "idle" /\ ~fpOpen[Worker(r, v)]
        /\ holder[v] # Worker(r, v)
        /\ copies[Worker(r, v)] = 0
        /\ \A i \in 1..Len(results[r]) : results[r][i] # v
        /\ \A i \in 1..Len(errors[r]) : errors[r][i][1] # v
        /\ \A i \in 1..Len(stdout[r]) : stdout[r][i] # ExportLine(v)

C18_UnselectedStep(v) ==
    v \notin Submitted(1)' =>
        /\ marker'[v] = marker[v] /\ scratch'[v] = scratch[v]
        /\ holder'[v] = holder[v]

C18_ExactlySelected ==
    /\ [][\A enabled \in SUBSET Resources, only_vars \in Selections :
             C18_StartStep(1, enabled, only_vars)]_vars
    /\ [](\A v \in Resources : C18_Unselected(1, v))
    /\ [][\A v \in Resources : C18_UnselectedStep(v)]_vars
    /\ [](phase[1] = "done" /\ Submitted(1) = {} =>
             exitCode[1] = 0 /\ stdout[1] = <<>>)

\* C18 witness: B was not submitted and A was: the run is over, A was
\* copied, marked and exported, B has no marker, no copy and no line.
C18_Witness ==
    /\ phase[1] = "done" /\ Submitted(1) = {"A"}
    /\ kind[Worker(1, "A")] = "copied" /\ marker["A"].synced_at > 0
    /\ stdout[1] = <<ExportLine("A")>> /\ exitCode[1] = 0
    /\ marker["B"] = AbsentMarker /\ ~scratch["B"] /\ copies[Worker(1, "B")] = 0

\* C19: a sync command that finds no usable configuration (missing file,
\* text that is not the expected JSON, other version) ends at once with
\* exit status 2, and has taken no lock, run no copy, written no marker and
\* printed no export line.
Unusable == ConfigFiles \ {"ok"}

C19_LoadStep(r, cfg) ==
    (\E d \in BOOLEAN, f \in BOOLEAN : SyncCommand(r, cfg, d, f)) =>
        /\ phase'[r] = "done" /\ exitCode'[r] = 2
        /\ UNCHANGED <<lockVars, fsVars, scratch, copied, copies, stdout, wpc>>

C19_ConfigFatal == [][\A cfg \in Unusable : C19_LoadStep(1, cfg)]_vars

\* C19, the part that holds: a missing file, undecodable text and a version
\* mismatch end with status 2 before anything is processed; every unusable
\* configuration ends the command at once with a status other than 0.
C19_ListedStep(r, cfg) ==
    (\E d \in BOOLEAN, f \in BOOLEAN : SyncCommand(r, cfg, d, f)) =>
        /\ phase'[r] = "done" /\ exitCode'[r] # 0
        /\ cfg \in {"missing", "invalid_json", "version_mismatch"} => exitCode'[r] = 2
        /\ UNCHANGED <<lockVars, fsVars, scratch, copied, copies, stdout, wpc>>

C19_ListedKindsFatal == [][\A cfg \in Unusable : C19_ListedStep(1, cfg)]_vars

\* C20: a push step over a resource whose scratch directory does not exist
\* ends that resource as skipped and changes nothing else: no lock, no
\* copy, no marker, no entry in the error list.  A push run that exits
\* non-zero has a failed resource, and when the run is over every resource
\* whose scratch directory exists was pushed (or shown, in a dry run).
PushRun(r) == runKind[r] = "push"

C20_SkipStep(c) ==
    (PushOneVar(c) /\ ~scratch[NameOf(c)]) =>
        /\ wpc'[c] = "done" /\ kind'[c] = "skipped"
        /\ UNCHANGED <<lockVars, fsVars, scratch, copied, copies, errors, exitCode>>

C20_RunOver(r) ==
    (PushRun(r) /\ phase[r] = "done") =>
        /\ exitCode[r] # 0 => \E c \in WorkersOf(r) : kind[c] = "failed"
        /\ \A c \in WorkersOf(r) :
             /\ kind[c] = "skipped" <=> ~scratch[NameOf(c)]
             /\ kind[c] = "skipped" =>
                  /\ copies[c] = 0 /\ pc[c] = "idle"
                  /\ NameOf(c) \notin ErrorNames(r)
             /\ scratch[NameOf(c)] =>
                  IF dryRun[r] THEN kind[c] = "dryrun"
                  ELSE kind[c] \in {"copied", "failed"}

C20_MissingScratchSkipped ==
    /\ [][\A c \in Callers : C20_SkipStep(c)]_vars
    /\ [](\A r \in Runs : C20_RunOver(r))

\* C20 witness: A has no scratch directory and B has one; the push skipped
\* A, pushed B under B's lock and exited 0.
C20_Witness ==
    /\ PushRun(2) /\ phase[2] = "done" /\ exitCode[2] = 0 /\ ~dryRun[2]
    /\ ~scratch["A"] /\ kind[Worker(2, "A")] = "skipped"
    /\ kind[Worker(2, "B")] = "copied" /\ copies[Worker(2, "B")] = 1
    /\ errors[2] = <<>>

\* C21: a push worker copies only while it holds the flock of its resource,
\* from the scratch directory into the persistent one (the scratch
\* directory is left alone); it writes the marker only after run_rsync has
\* returned, still under the lock; it ends as copied with the lock released
\* and a marker record behind it; and a push run never has anything on
\* stdout, whether it pushed, skipped, only showed (dry run) or failed.
PushWorker(c) == runKind[RunOf(c)] = "push"

C21_PushStep(c) ==
    (PushWorker(c) /\ phase[RunOf(c)] = "running") =>
        /\ copies'[c] # copies[c] =>
             /\ wpc[c] = "lock" /\ pc[c] = "section" /\ holder[NameOf(c)] = c
             /\ scratch' = scratch /\ scratch[NameOf(c)]
             /\ source'[NameOf(c)].state # "missing"
        /\ (wpc[c] # "marked" /\ wpc'[c] = "marked") =>
             /\ wpc[c] = "copied" /\ copies[c] = 1
             /\ holder[NameOf(c)] = c /\ holder'[NameOf(c)] = c
             /\ marker'[NameOf(c)] = write_marker(NameOf(c))[NameOf(c)]
        /\ (Ends(c) /\ kind'[c] = "copied") =>
             /\ wpc[c] = "marked" /\ holder[NameOf(c)] = c
             /\ holder'[NameOf(c)] = 0 /\ ~fpOpen'[c]
        /\ (Ends(c) /\ kind'[c] # "copied") =>
             marker'[NameOf(c)] = marker[NameOf(c)]

C21_PushSilent ==
    \A r \in Runs : PushRun(r) =>
        /\ stdout[r] = <<>>
        /\ SelectSeq(Printed(r), OnStdout) = <<>>

C21_PushSequence ==
    /\ [][\A c \in Callers : C21_PushStep(c)]_vars
    /\ []C21_PushSilent

\* C21 witness: a push run is over in which A was pushed and marked and B's
\* copy failed; it exits 1 and its stdout is empty.
C21_Witness ==
    /\ PushRun(2) /\ phase[2] = "done" /\ exitCode[2] = 1
    /\ kind[Worker(2, "A")] = "copied" /\ marker["A"].kind = "record"
    /\ kind[Worker(2, "B")] = "failed" /\ copies[Worker(2, "B")] = 1
    /\ stdout[2] = <<>>

\* C22: the list check_congruency returns holds a mismatch warning for a
\* resource exactly when the resource is enabled, its environment variable
\* is set, and the resolved value differs from the resolved configured
\* source (a path that cannot be resolved is passed over).  The run that
\* follows submits the enabled resources that were selected and exits by
\* its error list, whatever the warnings were.
Warned(n) ==
    \E i \in 1..Len(warnings.list) :
        warnings.list[i].var_name = n /\ warnings.list[i].message = "mismatch"

Incongruent(n) ==
    /\ config.vars[n].enabled
    /\ environ[n].set
    /\ ~resolve_raises(environ[n].value) /\ ~resolve_raises(config.vars[n].source)
    /\ resolve(environ[n].value) # resolve(config.vars[n].source)

C22_RunStep(r, only_vars) ==
    (\E d \in BOOLEAN, f \in BOOLEAN : RunSync(r, d, f, only_vars)) =>
        Submitted(r)' = (IF only_vars.given THEN EnabledOf(config) \cap only_vars.names
                         ELSE EnabledOf(config))

C22_WarnsIffIncongruent ==
    /\ [](warnings.called => \A n \in Resources : Warned(n) <=> Incongruent(n))
    /\ [][\A only_vars \in Selections : C22_RunStep(1, only_vars)]_vars
    /\ [](phase[1] = "done" => exitCode[1] = (IF errors[1] # <<>> THEN 1 ELSE 0))
    /\ [][warnings.called => warnings' = warnings]_vars

\* C22 witness: $A is set to the old location and is warned about, $B is
\* set to another spelling of B's source and is not; the dry run that
\* followed went over both resources and exited 0.
C22_Witness ==
    /\ warnings.called /\ Warned("A") /\ ~Warned("B")
    /\ environ["A"] = Set(<<"old", "hf">>) /\ config.vars["A"].source = <<"new", "x", "..", "hf">>
    /\ environ["B"] = Set(<<"new", ".", "hf">>) /\ config.vars["B"].enabled
    /\ phase[1] = "done" /\ exitCode[1] = 0 /\ Submitted(1) = Resources
    /\ stdout[1] = <<ExportLine("A"), ExportLine("B")>>

\* C23: the value of a printed export line is the path itself when the path
\* is made of safe characters only; otherwise it is the path between single
\* quotes with every embedded single quote replaced by '\'' .  Either way a
\* shell that reads the value as the word of an assignment gets the path
\* back.
\* How sh reads a word: outside quotes a safe character stands for itself,
\* a backslash makes the next character literal, a single quote opens a
\* quoted stretch that runs to the next single quote, and a blank or a
\* dollar sign ends or expands the word.
RECURSIVE ShellWord(_, _)
ShellWord(q, quoted) ==
    IF q = <<>> THEN (IF quoted THEN <<"unterminated">> ELSE <<>>)
    ELSE IF quoted
         THEN IF Head(q) = "'" THEN ShellWord(Tail(q), FALSE)
              ELSE <<Head(q)>> \o ShellWord(Tail(q), TRUE)
    ELSE IF Head(q) = "'" THEN ShellWord(Tail(q), TRUE)
    ELSE IF Head(q) = "\\"
         THEN IF Len(q) = 1 THEN <<"dangling">>
              ELSE <<q[2]>> \o ShellWord(Tail(Tail(q)), FALSE)
    ELSE IF IsSafe(Head(q)) THEN <<Head(q)>> \o ShellWord(Tail(q), FALSE)
    ELSE <<"split">>

AllSafe(s) == \A i \in 1..Len(s) : IsSafe(s[i])

Quotes(s) == {i \in 1..Len(s) : s[i] = "'"}

C23_Escaped(s, q) ==
    /\ Len(q) = Len(s) + 2 + 3 * Cardinality(Quotes(s))
    /\ q[1] = "'" /\ q[Len(q)] = "'"
    /\ \A i \in 1..Len(s) :
         LET at == 1 + i + 3 * Cardinality({j \in Quotes(s) : j < i})
         IN  IF s[i] = "'"
             THEN SubSeq(q, at, at + 3) = <<"'", "\\", "'", "'">>
             ELSE q[at] = s[i]

C23_ShellEscaped ==
    printed # <<>> =>
        /\ printed[1] = "export" /\ printed[2] \in Resources
        /\ AllSafe(scratch_path) => printed[3] = scratch_path
        /\ ~AllSafe(scratch_path) => C23_Escaped(scratch_path, printed[3])
        /\ ShellWord(printed[3], FALSE) = scratch_path

\* C23 witness: a path with a blank and a single quote in it was printed
\* quoted and escaped.
C23_Witness ==
    /\ scratch_path = <<"a", " ", "'">>
    /\ printed = <<"export", "A", <<"'", "a", " ", "'", "\\", "'", "'", "'">> >>

\* C24: an exception raised by the protected section ends the
\* with-statement with that very exception, at once: the generator makes no
\* further attempt, does not sleep and reports nothing else.
C24_RaiseStep(c, exc) ==
    SectionRaise(c, exc) =>
        /\ pc'[c] = "exited" /\ outcome'[c] = exc
        /\ holder'[lockPath[c]] # c /\ ~fpOpen'[c]

C24_SectionErrorPropagates ==
    [][\A c \in Callers, exc \in ExceptionKinds : C24_RaiseStep(c, exc)]_vars

\* C24, the part that holds: an exception that is not an OSError
\* propagates unchanged and releases the lock; and only a caller whose
\* section raised an OSError ever polls again after its section started.
C24_OtherStep(c, exc) ==
    (exc # "OSError" /\ SectionRaise(c, exc)) =>
        /\ pc'[c] = "exited" /\ outcome'[c] = exc
        /\ holder'[lockPath[c]] # c /\ ~fpOpen'[c]

C24_NonOSErrorPropagates ==
    /\ [][\A c \in Callers, exc \in ExceptionKinds : C24_OtherStep(c, exc)]_vars
    /\ [][\A c \in Callers :
            (pc[c] = "section" /\ pc'[c] \in {"try", "except", "sleep"}) => thrown'[c]]_vars

\* C25: the step in which a sync worker decides goes by this order: source
\* missing, the worker ends as warned; else not forced and the marker allows
\* a skip, it ends as skipped; else dry run, it ends as a would-be copy
\* without lock or copy; else it goes on to the lock.
C25_Decision(c) ==
    LET r == RunOf(c)
        v == NameOf(c)
    IN  IF source[v].state = "missing" THEN kind'[c] = "warned" /\ wpc'[c] = "done"
        ELSE IF ~force[r] /\ SkipAllowed(v) THEN kind'[c] = "skipped" /\ wpc'[c] = "done"
        ELSE IF dryRun[r]
             THEN /\ kind'[c] = "dryrun" /\ wpc'[c] = "done"
                  /\ pc'[c] = "idle" /\ copies'[c] = 0
        ELSE wpc'[c] = "lock" /\ pc'[c] # "idle"

C25_DecisionOrder ==
    [][\A c \in Callers : (SyncRun(RunOf(c)) /\ Decides(c)) => C25_Decision(c)]_vars

\* C25, the part that holds: the order is kept whenever the run is forced
\* or the marker file is absent, undecodable or a record.
C25_OrderOnListedMarkers ==
    [][\A c \in Callers :
         (SyncRun(RunOf(c)) /\ Decides(c)
          /\ (force[RunOf(c)] \/ ListedMarker(NameOf(c)) \/ source[NameOf(c)].state = "missing"))
         => C25_Decision(c)]_vars

\* C26: when the source of a resource was modified after rsync read it and
\* before the marker was written, the marker that was written does not let
\* a non-forced sync skip the resource inside the freshness window: as long
\* as the source differs from what was last copied, should_skip does not
\* answer true.
ModifiedSinceCopy(v) ==
    /\ copied[v] # MissingSource
    /\ source[v].children # copied[v].children

C26_ModifiedIsNotSkipped ==
    \A v \in Resources :
        (ModifiedSinceCopy(v) /\ marker[v].kind = "record"
         /\ now - marker[v].synced_at <= skipIfFresh)
            => should_skip(v) # "True"

\* C26, the part that holds: a modification made after the marker was
\* written is seen, because its timestamp is above the recorded fingerprint.
C26_LaterModificationSeen ==
    [][\A v \in {"A"} :
         (ModifySource(v) /\ \A c \in Callers : NameOf(c) = v => wpc[c] # "copied")
            => should_skip(v)' # "True"]_vars

\* C27: a worker of a non-forced sync run starts its copy only if, at that
\* moment, under the lock, the marker does not allow a skip; so of two runs
\* racing for a resource with an unchanged source, the one that waited for
\* the lock finds the other's marker and does not copy again.
C27_CopyStep(c) ==
    (SyncRun(RunOf(c)) /\ ~force[RunOf(c)] /\ copies[c] = 0 /\ copies'[c] = 1)
        => ~SkipAllowed(NameOf(c))

C27_RecheckedUnderLock == [][\A c \in Callers : C27_CopyStep(c)]_vars

\* C27, what the code does instead: freshness is looked at once, before the
\* lock; the marker never allowed a skip when the worker decided.
C27_CheckedBeforeLock ==
    [][\A c \in Callers :
         (SyncRun(RunOf(c)) /\ ~force[RunOf(c)] /\ Decides(c) /\ wpc'[c] = "lock")
            => ~SkipAllowed(NameOf(c))]_vars

\* C28: with every rsync child ending, every worker of a sync run that was
\* submitted ends, and the run prints its summary and exits; a worker that
\* waits for a lock never sleeps past the lock timeout counted from its
\* first attempt, and the wait ends in the protected section or in
\* LockTimeout.
C28_Deadline(c) ==
    (wpc[c] = "lock" /\ pc[c] = "sleep") =>
        /\ wakeAt[c] <= start[c] + lockTimeout
        /\ wait[c] <= lockTimeout

C28_RunTerminates ==
    /\ \A c \in WorkersOf(1) : (wpc[c] = "start") ~> (wpc[c] = "done")
    /\ (phase[1] = "running") ~> (phase[1] = "done")
    /\ [](\A c \in WorkersOf(1) : C28_Deadline(c))
    /\ [](\A c \in WorkersOf(1) :
            (wpc[c] = "done" /\ kind[c] = "failed" /\ copies[c] = 0 /\ pc[c] # "idle")
                => outcome[c] = "LockTimeout")

\* C28 witness: another process held A's lock throughout; A's worker
\* gave up with LockTimeout once the timeout had passed, B was copied, and
\* the run has ended.
C28_Witness ==
    /\ phase[1] = "done" /\ exitCode[1] = 1
    /\ holder["A"] = Foreign
    /\ outcome[Worker(1, "A")] = "LockTimeout" /\ copies[Worker(1, "A")] = 0
    /\ elapsed[Worker(1, "A")] >= lockTimeout
    /\ kind[Worker(1, "B")] = "copied"

\* C29: a copy step of a sync worker whose rsync child exits 23 or 24 is
\* the very step a child exiting 0 gives.  The worker goes on to write the
\* marker and ends as copied: the resource has its export line, is not in
\* the error list, and a later non-forced run started inside the freshness
\* window skips it.
C29_CopyStep(c, n) ==
    Copy(c, Rsync(n), FALSE) =>
        /\ Copy(c, Rsync(0), FALSE)
        /\ wpc'[c] = "copied" /\ errors' = errors /\ holder'[NameOf(c)] = c

C29_Copied(r, c) ==
    (SyncRun(r) /\ phase[r] = "done" /\ kind[c] = "copied") =>
        /\ marker[NameOf(c)].kind = "record"
        /\ \E i \in 1..Len(stdout[r]) : stdout[r][i] = ExportLine(NameOf(c))
        /\ NameOf(c) \notin ErrorNames(r)

C29_NextRun(c) ==
    (RunOf(c) = 2 /\ Decides(c) /\ marker[NameOf(c)].kind = "record"
     /\ now - marker[NameOf(c)].synced_at <= skipIfFresh)
        => kind'[c] = "skipped" /\ copies'[c] = 0

C30_PushMarkerStep(c) ==
    (PushWorker(c) /\ wpc[c] = "copied" /\ wpc'[c] = "marked"
     /\ ModifiedSinceCopy(NameOf(c)))
        => should_skip(NameOf(c))' # "True"

C30_PushKeepsUnsyncedVisible == [][\A c \in Callers : C30_PushMarkerStep(c)]_vars

\* C30, what holds before the push writes its marker: the entries added
\* since the last sync are above the fingerprint the sync recorded, so a
\* non-forced sync would not skip the resource.
C30_VisibleBeforePush ==
    \A c \in Callers :
        (PushWorker(c) /\ wpc[c] \in {"start", "lock", "copied"}
         /\ ModifiedSinceCopy(NameOf(c)) /\ marker[NameOf(c)].kind = "record"
         /\ Readable(source[NameOf(c)]))
            => should_skip(NameOf(c)) = "False"

(* ---------------------------- migration claims ------------------------- *)
\* C31: after the configured source path of a resource was changed to another
\* directory, a non-forced sync does not skip the resource on a marker that
\* was written for the old path: a skip implies that the path recorded in the
\* marker is the configured one.
C31_SkipStep(c) ==
    (SyncRun(RunOf(c)) /\ Decides(c) /\ kind'[c] = "skipped")
        => marker[NameOf(c)].source = config.vars[NameOf(c)].source

C31_RecordedPathChecked == [][\A c \in Callers : C31_SkipStep(c)]_vars

\* C32: once the workers of a sync run have settled, every selected resource
\* has exactly one outcome: it is once in the results (skipped, copied,
\* warned for a missing source, or the would-be action of a dry run) or once
\* in the error list, never in both and never in neither.
Occurrences(seq, x) == Cardinality({i \in 1..Len(seq) : seq[i] = x})
ErrorList(r) == [i \in 1..Len(errors[r]) |-> errors[r][i][1]]

C32_OneOutcome(r, v) ==
    /\ Occurrences(results[r], v) + Occurrences(ErrorList(r), v) = 1
    /\ Occurrences(results[r], v) = 1
         <=> kind[Worker(r, v)] \in {"skipped", "copied", "warned", "dryrun"}
    /\ Occurrences(ErrorList(r), v) = 1 <=> kind[Worker(r, v)] = "failed"

C32_ExactlyOneOutcome ==
    \A r \in Runs :
        (SyncRun(r) /\ phase[r] = "done") =>
            /\ \A v \in Submitted(r) : C32_OneOutcome(r, v)
            /\ \A v \in Resources \ Submitted(r) :
                  Occurrences(results[r], v) + Occurrences(ErrorList(r), v) = 0

C32_Witness ==
    \E r \in Runs :
        /\ SyncRun(r) /\ phase[r] = "done"
        /\ Submitted(r) = Resources
        /\ Len(results[r]) = 1 /\ Len(errors[r]) = 1

\* C33: a sync run never has more than parallel_jobs resources in progress at
\* once, and a step of the worker of one resource leaves the lock, the marker
\* and the scratch directory of every other resource as they were, takes no
\* lock path but its own and copies into no directory but its own.
C33_WorkerStep(c) ==
    /\ phase[RunOf(c)] = "running"
    /\ wpc'[c] # wpc[c] \/ pc'[c] # pc[c] \/ copies'[c] # copies[c]

C33_Isolated(c) ==
    /\ \A v \in Resources \ {NameOf(c)} :
          /\ holder'[v] = holder[v]
          /\ marker'[v] = marker[v]
          /\ scratch'[v] = scratch[v]
          /\ copied'[v] = copied[v]
    /\ lockPath'[c] \in {"none", lock_path_for(NameOf(c))}
    /\ cmd'[c] # cmd[c] => cmd'[c].target = Contents(scratch_dir_for(NameOf(c)))

C33_BoundedAndIsolated ==
    /\ [](\A r \in Runs : SyncRun(r) => Cardinality(Busy(r)) <= config.parallel_jobs)
    /\ [][\A c \in Callers : C33_WorkerStep(c) => C33_Isolated(c)]_vars

\* the pool is full and a submitted resource is waiting for a thread
C33_Witness ==
    \E r \in Runs :
        /\ SyncRun(r) /\ phase[r] = "running"
        /\ Cardinality(Busy(r)) = config.parallel_jobs
        /\ \E c \in WorkersOf(r) : wpc[c] = "start" /\ source[NameOf(c)].state = "ok"

\* C34: sync and push take the same lock path for a resource, so while the
\* worker of one of them is between taking the lock and leaving it (its copy
\* and its marker write) the worker of the other for the same resource is
\* not, whichever of the two started first; a copy or a marker write by one
\* happens only while the other is outside.
C34_Pair(s, p) ==
    /\ runKind[RunOf(s)] = "sync" /\ runKind[RunOf(p)] = "push"
    /\ NameOf(s) = NameOf(p)

C34_SameLock(s, p) ==
    (lockPath[s] # "none" /\ lockPath[p] # "none") => lockPath[s] = lockPath[p]

C34_CriticalStep(c, o) ==
    (copies'[c] # copies[c] \/ marker'[NameOf(c)] # marker[NameOf(c)])
        => (~Critical(o) /\ ~Critical(o)' /\ copies'[o] = copies[o])

C34_SyncPushExclusive ==
    /\ [](\A s, p \in Callers : C34_Pair(s, p) =>
            (C34_SameLock(s, p) /\ ~(Critical(s) /\ Critical(p))))
    /\ [][\A s, p \in Callers : C34_Pair(s, p) =>
            ((Critical(s) => C34_CriticalStep(s, p)) /\ (Critical(p) => C34_CriticalStep(p, s)))]_vars

\* both orders: one holds the lock and has copied, the other is polling
C34_SyncWaitsForPush ==
    \E s, p \in Callers :
        /\ C34_Pair(s, p) /\ wpc[p] = "copied" /\ Polling(s)
C34_Witness ==
    \E s, p \in Callers :
        /\ C34_Pair(s, p) /\ wpc[s] = "copied" /\ Polling(p)

\* C35: once the export lines of a sync run have been evaluated by the shell
\* function, so that each exported resource's variable holds its scratch
\* path, the congruency check of the next sync run returns no warning for
\* those resources.
Evaluated(r) ==
    /\ phase[r] = "gone" /\ Exported(r) # {}
    /\ \A n \in Exported(r) : environ[n] = Set(scratch_dir_for(n))

C35_CheckStep(r) ==
    (Evaluated(r) /\ CallCheckCongruency) => \A n \in Exported(r) : ~Warned(n)'

C35_NoWarningAfterEval == [][C35_CheckStep(1)]_vars

\* C36 as stated: no rsync command of a sync or push worker carries
\* --delete; only the command of run_migrate does.
HasOption(command, opt) == \E i \in 1..Len(command.options) : command.options[i] = opt

C36_AsStated ==
    /\ \A c \in Callers : ~HasOption(cmd[c], "--delete")
    /\ cmd[Migrator] # NoCommand => HasOption(cmd[Migrator], "--delete")

\* C36 (amended): sync and push never pass delete=true, so their command
\* holds --delete exactly when the configured rsync_extra_args hold it: the
\* options are the four fixed ones followed by rsync_extra_args. run_migrate
\* passes delete=true and no extra arguments.
C36_DeleteOnlyFromConfig ==
    /\ \A c \in Callers :
          cmd[c] # NoCommand =>
              /\ cmd[c].options = SubSeq(cmd[c].options, 1, 4) \o config.rsync_extra_args
              /\ ~HasOption([options |-> SubSeq(cmd[c].options, 1, 4)], "--delete")
              /\ HasOption(cmd[c], "--delete")
                    <=> HasOption([options |-> config.rsync_extra_args], "--delete")
    /\ cmd[Migrator] # NoCommand =>
          /\ HasOption(cmd[Migrator], "--delete")
          /\ Len(cmd[Migrator].options) = 5

\* C36 witness: a sync has copied A, run_migrate has built its command with
\* --delete, and the push that follows has built one without.
C36_Witness ==
    /\ cmd[Migrator] # NoCommand
    /\ config.rsync_extra_args = <<>>
    /\ copied[What].state = "ok"
    /\ \E p \in Callers :
          /\ runKind[RunOf(p)] = "push"
          /\ cmd[p] # NoCommand /\ ~HasOption(cmd[p], "--delete")

\* C37: a dry run of run_migrate copies nothing and leaves the configuration
\* and both directories as they are. A real run performs its steps in the
\* order copy with --delete, save of the updated configuration, removal of
\* the old directory; the removal happens only when keep_old is false; when
\* the copy raises, the configuration is not updated and the old directory
\* is not removed.
StepNames == [i \in 1..Len(steps) |-> steps[i].step]

C37_DryRunStep(tp, k, y) ==
    StartMigrate(tp, TRUE, k, y) =>
        /\ UNCHANGED <<config, source, other, cmd, steps>>
        /\ mpc' \in {"dryrun", "ValueError", "FileNotFoundError"}

C37_CopyRaised == mpc \in {"RsyncError", "FileNotFoundError"} /\ steps # <<>>

C37_Order ==
    /\ StepNames \in {<<>>, <<"rsync">>, <<"rsync", "save">>, <<"rsync", "save", "rmtree">>}
    /\ steps # <<>> => HasOption(cmd[Migrator], "--delete")
    /\ mpc = "dryrun" => (steps = <<>> /\ cmd[Migrator] = NoCommand)
    /\ Len(steps) >= 2 <=> config.vars[What].source # HomePath
    /\ Len(steps) >= 2 => config.vars[What].source = to_path
    /\ Len(steps) = 3 => (~keep_old /\ other = MissingSource)
    /\ (Len(steps) = 2 /\ mpc = "done" /\ keep_old) => other.state = "ok"
    /\ C37_CopyRaised =>
          /\ StepNames = <<"rsync">>
          /\ config.vars[What].source = HomePath
          /\ source[What] = Source("ok", 0, {0})

C37_MigrateSteps ==
    /\ []C37_Order
    /\ [][\A tp \in MigrateTargets, k \in BOOLEAN, y \in BOOLEAN : C37_DryRunStep(tp, k, y)]_vars
    /\ [][(mpc \in {"dryrun", "aborted", "done", "ValueError", "RsyncError", "FileNotFoundError"})
            => UNCHANGED <<mpc, steps, other, config>>]_vars

\* C37 witness: a real run without keep_old went through its three steps
C37_Witness ==
    /\ mpc = "done" /\ ~keep_old
    /\ StepNames = <<"rsync", "save", "rmtree">>
    /\ steps[1].returncode = 0
    /\ config.vars[What].source = <<"old", "hf">>
    /\ source[What] = Source("ok", 0, {0}) /\ other = MissingSource

\* C38: when the rsync of run_migrate ended with exit status 23 or 24 (a
\* partial transfer, vanished source files), the old directory is not
\* removed and the configuration still names it.
C38_PartialCopy == steps # <<>> /\ steps[1].returncode \in {23, 24}

C38_OldKeptAfterPartialCopy ==
    C38_PartialCopy =>
        /\ StepNames = <<"rsync">>
        /\ config.vars[What].source = HomePath
        /\ source[What].state = "ok"

\* What the code does after such a copy: it goes on as after exit status 0.
C38_PartialCopyGoesOn ==
    (C38_PartialCopy /\ mpc = "done" /\ ~keep_old /\ yes) =>
        /\ StepNames = <<"rsync", "save", "rmtree">>
        /\ config.vars[What].source = to_path
        /\ other = MissingSource
        /\ source[What] \in Partial(Source("ok", 0, {0}))

(* ----------------------------- marker claims --------------------------- *)
\* C39: whatever marker was there before (none, a fresh one, a stale one, an
\* undecodable one), write_marker leaves a record with the current time and
\* the current fingerprint of the source; when the fingerprint cannot be
\* read the record holds 0 and the call still returns.
C39_Written(v) ==
    [kind |-> "record",
     synced_at |-> now,
     source_mtime |-> IF Readable(source[v]) THEN Fingerprint(source[v]) ELSE 0,
     source |-> config.vars[v].source]

C39_WriteStep(v) ==
    CallWriteMarker(v) =>
        /\ marker'[v] = C39_Written(v)
        /\ \A w \in Resources \ {v} : marker'[w] = marker[w]

C39_MarkerRecordsNow == [][\A v \in Resources : C39_WriteStep(v)]_vars

\* C39 witness: a marker written later than any marker file that was put in
\* place, for a source whose fingerprint cannot be read
C39_Witness ==
    /\ source["A"].state = "badchild" /\ source["A"].mtime > 0
    /\ marker["A"].kind = "record"
    /\ marker["A"].synced_at = now /\ now > MaxStamp
    /\ marker["A"].source_mtime = 0

\* C40: the fingerprint of a listable source directory is the largest of its
\* own modification time and those of its immediate children; a
\* modification at depth two or deeper, which changes none of these, leaves
\* the fingerprint and with it the answer of should_skip as they were.
C40_Listable(src) == src.state = "ok"

C40_IsMax(f, src) ==
    /\ f \in {src.mtime} \cup src.children
    /\ \A t \in {src.mtime} \cup src.children : t <= f

C40_DeepStep(v) ==
    DeepModify(v) =>
        /\ _get_dir_mtime_raises(source[v])' = _get_dir_mtime_raises(source[v])
        /\ ~_get_dir_mtime_raises(source[v]) =>
              _get_dir_mtime(source[v])' = _get_dir_mtime(source[v])
        /\ should_skip(v)' = should_skip(v)

====
